---------------------------- MODULE Spec2Model ----------------------------
(***************************************************************************)
(* A model of clone-finder: the Gallina term model of                      *)
(* src/parsing/ast/goal_ast.py (literal equality, in-place substitution,   *)
(* free variables, alpha-equivalence), the variable dependency graph of    *)
(* src/var_dag.py and the goal generalizer of src/util.py.                 *)
(*                                                                         *)
(* Terms are records carrying the fields of the Python classes.  Python's  *)
(* None is the record NoneT (for an Optional[Term] or Optional[Pattern])   *)
(* or the name NoVar (for an Optional[Var]).  A Python call that may raise *)
(* is modelled by a result that says so: subst yields a record             *)
(* [t, none, err] (the object after the in-place update, whether the call  *)
(* returned None, whether it raised) and alpha_equiv yields "true",        *)
(* "false" or "raise".  deepcopy needs no operator: values are immutable   *)
(* here, so the copy is the value itself and a later subst of the copy     *)
(* leaves the original as it was.                                          *)
(***************************************************************************)
EXTENDS Integers, Sequences, FiniteSets, TLC

VARIABLES
    t1,        \* first operand of the term operations (the receiver)
    t2,        \* second operand
    op,        \* the operation executed last ("init" before any)
    arg,       \* the arguments of that operation
    res,       \* what it returned
    adj,       \* VarDAG.__adj: node -> list of successors
    keys,      \* the insertion order of the keys of VarDAG.__adj
    topo,      \* the outcome of get_topological_ordering
    gen,       \* input and outcome of the last generalize call
    ptree,     \* the proof tree under construction or under query
    clone      \* the clone search: its corpus, candidates and report

vars == <<t1, t2, op, arg, res, adj, keys, topo, gen, ptree, clone>>

-----------------------------------------------------------------------------
(* Names and the constructors of the term model                            *)

NoVar == ""
NoneT == [tag |-> "None"]

Var(n) == [tag |-> "Var", name |-> n]
Sort(n) == [tag |-> "Sort", name |-> n, annotation |-> ""]
Fun(x, ty, b) == [tag |-> "Fun", var |-> x, var_type |-> ty, body |-> b]
Product(x, ty, b) == [tag |-> "Product", var |-> x, var_type |-> ty, body |-> b]
Let(x, ty, d, b) ==
    [tag |-> "Let", var |-> x, var_type |-> ty, var_def |-> d, body |-> b]
Cast(t, ty) == [tag |-> "Cast", term |-> t, term_type |-> ty]
App(f, a) == [tag |-> "App", func |-> f, arg |-> a]
Cond(g, rt, th, el, al) ==
    [tag |-> "Cond", guard |-> g, ret_ty |-> rt, then_branch |-> th,
     else_branch |-> el, guard_alias |-> al]
Binder(ns, ty) == [names |-> ns, ty |-> ty]
Fix(n, ps, rt, b, st) ==
    [tag |-> "Fix", name |-> n, params |-> ps, ret_ty |-> rt, body |-> b,
     struct |-> st]
Pattern(ns, al) == [names |-> ns, alias |-> al]
CaseClause(ps, b) == [patterns |-> ps, body |-> b]
MatchSubject(t, al, p) == [term |-> t, term_alias |-> al, pattern |-> p]
Match(ss, cs, rt) ==
    [tag |-> "Match", subjects |-> ss, cases |-> cs, ret_ty |-> rt]

IsAbstraction(t) == t.tag \in {"Fun", "Product", "Let"}

\* The placeholder of index i that alpha_equiv substitutes for a bound name.
SynthesizedVar(i) == "SynthesizedVar#" \o ToString(i)

\* Python's order on the names that occur here (str comparison, by code point).
NameOrder ==
    <<"O", "S", "SynthesizedVar#0", "SynthesizedVar#1", "SynthesizedVar#2",
      "SynthesizedVar#3", "_", "a", "b", "c", "f", "k", "v", "w", "x", "y", "z">>

NameRank(n) == CHOOSE i \in 1..Len(NameOrder) : NameOrder[i] = n

RECURSIVE InsertSorted(_, _)
InsertSorted(n, s) ==
    IF s = <<>> THEN <<n>>
    ELSE IF NameRank(n) <= NameRank(Head(s)) THEN <<n>> \o s
    ELSE <<Head(s)>> \o InsertSorted(n, Tail(s))

\* list.sort(key=lambda x: x.get_name())
RECURSIVE SortNames(_)
SortNames(s) == IF s = <<>> THEN <<>> ELSE InsertSorted(Head(s), SortNames(Tail(s)))

\* The elements of a set of names as a list (sorted; every use sorts anyway).
RECURSIVE SetToSeq(_)
SetToSeq(S) ==
    IF S = {} THEN <<>>
    ELSE LET n == CHOOSE m \in S : \A k \in S : NameRank(m) <= NameRank(k)
         IN <<n>> \o SetToSeq(S \ {n})

Range(s) == {s[i] : i \in 1..Len(s)}

RECURSIVE Flatten(_)
Flatten(ss) == IF ss = <<>> THEN <<>> ELSE Head(ss) \o Flatten(Tail(ss))

-----------------------------------------------------------------------------
(* Bound variables of the binding helper classes                           *)

Pattern_get_bound_vars(p) ==
    {p.names[i] : i \in 2..Len(p.names)} \cup
        (IF p.alias # NoVar THEN {p.alias} ELSE {})

MatchSubject_get_bound_vars(s) ==
    (IF s.term_alias # NoVar THEN {s.term_alias} ELSE {}) \cup
        (IF s.pattern # NoneT THEN Pattern_get_bound_vars(s.pattern) ELSE {})

\* [bv for p in patterns for bv in p.get_bound_vars() if bv.get_name() != '_']
CaseClause_bvs(c) ==
    Flatten([i \in 1..Len(c.patterns) |->
                SetToSeq(Pattern_get_bound_vars(c.patterns[i]) \ {"_"})])

Match_bvs(m) ==
    Flatten([i \in 1..Len(m.subjects) |->
                SetToSeq(MatchSubject_get_bound_vars(m.subjects[i]) \ {"_"})])

Fix_param_names(f) == Flatten([i \in 1..Len(f.params) |-> f.params[i].names])

Fix_bvs(f) == <<f.name>> \o SelectSeq(Fix_param_names(f), LAMBDA n : n # "_")

-----------------------------------------------------------------------------
(* Literal structural equality: the __eq__ methods                         *)

RECURSIVE Term_eq(_, _)

\* list == list over Var: same length, same names in the same order.
Names_eq(a, b) == a = b

Pattern_eq(p, q) == Names_eq(p.names, q.names) /\ p.alias = q.alias

\* Optional[Pattern]: None == None, and None equals no pattern.
OptPattern_eq(p, q) ==
    IF p = NoneT \/ q = NoneT THEN p = q ELSE Pattern_eq(p, q)

CaseClause_eq(c, d) ==
    /\ Len(c.patterns) = Len(d.patterns)
    /\ \A i \in 1..Len(c.patterns) : Pattern_eq(c.patterns[i], d.patterns[i])
    /\ Term_eq(c.body, d.body)

MatchSubject_eq(s, u) ==
    /\ (s.term_alias = NoVar) = (u.term_alias = NoVar)
    /\ s.term_alias = u.term_alias
    /\ (s.pattern = NoneT) = (u.pattern = NoneT)
    /\ OptPattern_eq(s.pattern, u.pattern)
    /\ Term_eq(s.term, u.term)

\* len(set(cases)): the number of classes of the clauses under __eq__.
CaseSetSize(cs) ==
    Cardinality({ {j \in 1..Len(cs) : CaseClause_eq(cs[i], cs[j])} : i \in 1..Len(cs) })

\* set(a) == set(b): equal sizes and every element of one is in the other.
CaseSet_eq(cs, ds) ==
    /\ CaseSetSize(cs) = CaseSetSize(ds)
    /\ \A i \in 1..Len(cs) : \E j \in 1..Len(ds) : CaseClause_eq(cs[i], ds[j])

Match_eq(a, b) ==
    /\ b.tag = "Match"
    /\ Len(a.subjects) = Len(b.subjects)
    /\ \A i \in 1..Len(a.subjects) : MatchSubject_eq(a.subjects[i], b.subjects[i])
    /\ CaseSet_eq(a.cases, b.cases)
    /\ Term_eq(a.ret_ty, b.ret_ty)

Cond_eq(a, b) ==
    /\ b.tag = "Cond"
    /\ (a.guard_alias = NoVar) = (b.guard_alias = NoVar)
    /\ a.guard_alias = b.guard_alias
    /\ Term_eq(a.guard, b.guard)
    /\ Term_eq(a.ret_ty, b.ret_ty)
    /\ Term_eq(a.then_branch, b.then_branch)
    /\ Term_eq(a.else_branch, b.else_branch)

Binder_eq(p, q) == Names_eq(p.names, q.names) /\ Term_eq(p.ty, q.ty)

Fix_eq(a, b) ==
    /\ b.tag = "Fix"
    /\ (a.struct = NoVar) = (b.struct = NoVar)
    /\ a.struct = b.struct
    /\ a.name = b.name
    /\ Len(a.params) = Len(b.params)
    /\ \A i \in 1..Len(a.params) : Binder_eq(a.params[i], b.params[i])
    /\ Term_eq(a.ret_ty, b.ret_ty)
    /\ Term_eq(a.body, b.body)

\* The bound variable takes no part in the comparison.
TermAbstraction_eq(a, b) ==
    /\ IsAbstraction(b)
    /\ Term_eq(a.var_type, b.var_type)
    /\ Term_eq(a.body, b.body)

Fun_eq(a, b) == b.tag = "Fun" /\ TermAbstraction_eq(a, b)

Product_eq(a, b) == b.tag = "Product" /\ TermAbstraction_eq(a, b)

Let_eq(a, b) ==
    b.tag = "Let" /\ TermAbstraction_eq(a, b) /\ Term_eq(a.var_def, b.var_def)

Var_eq(a, b) == b.tag = "Var" /\ a.name = b.name

Sort_eq(a, b) == b.tag = "Sort" /\ a.name = b.name /\ a.annotation = b.annotation

Cast_eq(a, b) ==
    b.tag = "Cast" /\ Term_eq(a.term, b.term) /\ Term_eq(a.term_type, b.term_type)

App_eq(a, b) == b.tag = "App" /\ Term_eq(a.func, b.func) /\ Term_eq(a.arg, b.arg)

\* a == b.  With None on the left Python asks the right operand, whose __eq__
\* is False for a non-term, so None equals only None.
Term_eq(a, b) ==
    CASE a.tag = "None" -> b.tag = "None"
      [] a.tag = "Var" -> Var_eq(a, b)
      [] a.tag = "Sort" -> Sort_eq(a, b)
      [] a.tag = "Fun" -> Fun_eq(a, b)
      [] a.tag = "Product" -> Product_eq(a, b)
      [] a.tag = "Let" -> Let_eq(a, b)
      [] a.tag = "Cast" -> Cast_eq(a, b)
      [] a.tag = "App" -> App_eq(a, b)
      [] a.tag = "Cond" -> Cond_eq(a, b)
      [] a.tag = "Fix" -> Fix_eq(a, b)
      [] a.tag = "Match" -> Match_eq(a, b)

-----------------------------------------------------------------------------
(* In-place substitution: the subst methods                                *)

Ok(t) == [t |-> t, none |-> FALSE, err |-> FALSE]
RetNone(t) == [t |-> t, none |-> TRUE, err |-> FALSE]
Raised(t) == [t |-> t, none |-> FALSE, err |-> TRUE]

RECURSIVE subst(_, _, _)

Var_subst(t, v, r) == IF t.name = v THEN Ok([t EXCEPT !.name = r]) ELSE Ok(t)

Sort_subst(t, v, r) == Ok(t)

TermAbstraction_subst(t, v, r) ==
    LET s1 == subst(t.var_type, v, r)
        u1 == [t EXCEPT !.var_type = s1.t]
    IN  IF s1.err THEN Raised(u1)
        ELSE IF v # t.var
             THEN LET s2 == subst(t.body, v, r)
                      u2 == [u1 EXCEPT !.body = s2.t]
                  IN  IF s2.err THEN Raised(u2) ELSE Ok(u2)
             ELSE Ok(u1)

Let_subst(t, v, r) ==
    LET s1 == TermAbstraction_subst(t, v, r)
    IN  IF s1.err THEN s1
        ELSE LET s2 == subst(t.var_def, v, r)
                 u2 == [s1.t EXCEPT !.var_def = s2.t]
             IN  IF s2.err THEN Raised(u2) ELSE Ok(u2)

Cast_subst(t, v, r) ==
    LET s1 == subst(t.term, v, r)
        u1 == [t EXCEPT !.term = s1.t]
    IN  IF s1.err THEN Raised(u1)
        ELSE LET s2 == subst(t.term_type, v, r)
                 u2 == [u1 EXCEPT !.term_type = s2.t]
             IN  IF s2.err THEN Raised(u2) ELSE Ok(u2)

App_subst(t, v, r) ==
    LET s1 == subst(t.func, v, r)
        u1 == [t EXCEPT !.func = s1.t]
    IN  IF s1.err THEN Raised(u1)
        ELSE LET s2 == subst(t.arg, v, r)
                 u2 == [u1 EXCEPT !.arg = s2.t]
             IN  IF s2.err THEN Raised(u2) ELSE Ok(u2)

\* The guard is not visited.
Cond_subst(t, v, r) ==
    LET s1 == subst(t.then_branch, v, r)
        u1 == [t EXCEPT !.then_branch = s1.t]
    IN  IF s1.err THEN Raised(u1)
        ELSE LET s2 == subst(t.else_branch, v, r)
                 u2 == [u1 EXCEPT !.else_branch = s2.t]
             IN  IF s2.err THEN Raised(u2)
                 ELSE IF t.guard_alias # v
                      THEN LET s3 == subst(t.ret_ty, v, r)
                               u3 == [u2 EXCEPT !.ret_ty = s3.t]
                           IN  IF s3.err THEN Raised(u3) ELSE Ok(u3)
                      ELSE Ok(u2)

\* for p in params: p.get_type().subst(var, replacement), from index i on.
RECURSIVE Fix_subst_params(_, _, _, _)
Fix_subst_params(ps, i, v, r) ==
    IF i > Len(ps) THEN [ps |-> ps, err |-> FALSE]
    ELSE LET s == subst(ps[i].ty, v, r)
             qs == [ps EXCEPT ![i].ty = s.t]
         IN  IF s.err THEN [ps |-> qs, err |-> TRUE]
             ELSE Fix_subst_params(qs, i + 1, v, r)

\* Both early exits are a bare return: the call yields None.
Fix_subst(t, v, r) ==
    IF t.name = v THEN RetNone(t)
    ELSE IF v \in Range(Fix_param_names(t)) THEN RetNone(t)
    ELSE LET sp == Fix_subst_params(t.params, 1, v, r)
             u1 == [t EXCEPT !.params = sp.ps]
         IN  IF sp.err THEN Raised(u1)
             ELSE LET s2 == subst(t.ret_ty, v, r)
                      u2 == [u1 EXCEPT !.ret_ty = s2.t]
                  IN  IF s2.err THEN Raised(u2)
                      ELSE LET s3 == subst(t.body, v, r)
                               u3 == [u2 EXCEPT !.body = s3.t]
                           IN  IF s3.err THEN Raised(u3) ELSE Ok(u3)

\* for subject in subjects: subject.get_subject_term().subst(var, replacement)
RECURSIVE Match_subst_subjects(_, _, _, _)
Match_subst_subjects(ss, i, v, r) ==
    IF i > Len(ss) THEN [ss |-> ss, err |-> FALSE]
    ELSE LET s == subst(ss[i].term, v, r)
             us == [ss EXCEPT ![i].term = s.t]
         IN  IF s.err THEN [ss |-> us, err |-> TRUE]
             ELSE Match_subst_subjects(us, i + 1, v, r)

\* for cc in cases: the body is visited unless a pattern of cc binds var.
RECURSIVE Match_subst_cases(_, _, _, _)
Match_subst_cases(cs, i, v, r) ==
    IF i > Len(cs) THEN [cs |-> cs, err |-> FALSE]
    ELSE LET bvs == UNION {Pattern_get_bound_vars(cs[i].patterns[j]) :
                              j \in 1..Len(cs[i].patterns)}
         IN  IF v \in bvs THEN Match_subst_cases(cs, i + 1, v, r)
             ELSE LET s == subst(cs[i].body, v, r)
                      ds == [cs EXCEPT ![i].body = s.t]
                  IN  IF s.err THEN [cs |-> ds, err |-> TRUE]
                      ELSE Match_subst_cases(ds, i + 1, v, r)

\* self.__ret_ty.subst is called on None when the match has no return type.
Match_subst(t, v, r) ==
    LET bvs == UNION {MatchSubject_get_bound_vars(t.subjects[i]) :
                         i \in 1..Len(t.subjects)}
        ss == Match_subst_subjects(t.subjects, 1, v, r)
        u1 == [t EXCEPT !.subjects = ss.ss]
    IN  IF ss.err THEN Raised(u1)
        ELSE LET s2 == IF v \notin bvs THEN subst(t.ret_ty, v, r) ELSE Ok(t.ret_ty)
                 u2 == [u1 EXCEPT !.ret_ty = s2.t]
             IN  IF s2.err THEN Raised(u2)
                 ELSE LET sc == Match_subst_cases(t.cases, 1, v, r)
                          u3 == [u2 EXCEPT !.cases = sc.cs]
                      IN  IF sc.err THEN Raised(u3) ELSE Ok(u3)

\* t.subst(v, r); on None the attribute lookup raises AttributeError.
subst(t, v, r) ==
    CASE t.tag = "None" -> Raised(t)
      [] t.tag = "Var" -> Var_subst(t, v, r)
      [] t.tag = "Sort" -> Sort_subst(t, v, r)
      [] t.tag \in {"Fun", "Product"} -> TermAbstraction_subst(t, v, r)
      [] t.tag = "Let" -> Let_subst(t, v, r)
      [] t.tag = "Cast" -> Cast_subst(t, v, r)
      [] t.tag = "App" -> App_subst(t, v, r)
      [] t.tag = "Cond" -> Cond_subst(t, v, r)
      [] t.tag = "Fix" -> Fix_subst(t, v, r)
      [] t.tag = "Match" -> Match_subst(t, v, r)

\* The value of the expression deepcopy(t).subst(v, r) when it does not raise.
SubstValue(s) == IF s.none THEN NoneT ELSE s.t

-----------------------------------------------------------------------------
(* Free variables: the free_vars methods                                   *)

RECURSIVE free_vars(_)

Pattern_free_vars(p) ==
    IF p.names # <<>> /\ p.names[1] # "_" THEN {p.names[1]} ELSE {}

CaseClause_free_vars(c) ==
    free_vars(c.body) \
        UNION {Pattern_get_bound_vars(c.patterns[i]) \ {"_"} : i \in 1..Len(c.patterns)}

MatchSubject_free_vars(s) ==
    free_vars(s.term) \cup
        (IF s.pattern # NoneT THEN Pattern_free_vars(s.pattern) ELSE {})

Match_free_vars(t) ==
    UNION {MatchSubject_free_vars(t.subjects[i]) : i \in 1..Len(t.subjects)}
    \cup (IF t.ret_ty # NoneT THEN free_vars(t.ret_ty) ELSE {})
    \cup UNION {CaseClause_free_vars(t.cases[i]) : i \in 1..Len(t.cases)}

\* The guard contributes nothing.
Cond_free_vars(t) ==
    (free_vars(t.ret_ty) \ (IF t.guard_alias # NoVar THEN {t.guard_alias} ELSE {}))
    \cup free_vars(t.then_branch) \cup free_vars(t.else_branch)

Binder_free_vars(b) == free_vars(b.ty) \ Range(b.names)

\* The names are removed from the parameter types and from the body, not
\* from the return type.
Fix_free_vars(t) ==
    LET pnames == Range(Fix_param_names(t))
        param_types_fvs ==
            UNION {Binder_free_vars(t.params[i]) : i \in 1..Len(t.params)} \ pnames
        body_fvs == (free_vars(t.body) \ {t.name}) \ pnames
    IN  free_vars(t.ret_ty) \cup param_types_fvs \cup body_fvs

\* free_vars without fvs.discard(self._var)
TermAbstraction_free_vars_no_discard(t) ==
    free_vars(t.body) \cup free_vars(t.var_type)

TermAbstraction_free_vars(t) ==
    (free_vars(t.body) \ {t.var}) \cup free_vars(t.var_type)

Let_free_vars(t) == TermAbstraction_free_vars(t) \cup free_vars(t.var_def)

free_vars(t) ==
    CASE t.tag = "Var" -> {t.name}
      [] t.tag = "Sort" -> {}
      [] t.tag \in {"Fun", "Product"} -> TermAbstraction_free_vars(t)
      [] t.tag = "Let" -> Let_free_vars(t)
      [] t.tag = "Cast" -> free_vars(t.term) \cup free_vars(t.term_type)
      [] t.tag = "App" -> free_vars(t.func) \cup free_vars(t.arg)
      [] t.tag = "Cond" -> Cond_free_vars(t)
      [] t.tag = "Fix" -> Fix_free_vars(t)
      [] t.tag = "Match" -> Match_free_vars(t)

-----------------------------------------------------------------------------
(* Alpha-equivalence: the alpha_equiv methods                              *)

Bool(b) == IF b THEN "true" ELSE "false"

\* x and y, where y is evaluated only if x is True and an exception escapes.
AndThen(x, y) == IF x = "true" THEN y ELSE x

RECURSIVE alpha_equiv(_, _)

\* for i in range(n): body.subst(bvs[i], Var('SynthesizedVar#%d' % i)), on a
\* copy; the values the calls return are dropped.
RECURSIVE SubstAll(_, _, _)
SubstAll(body, bvs, i) ==
    IF i > Len(bvs) THEN [t |-> body, err |-> FALSE]
    ELSE LET s == subst(body, bvs[i], SynthesizedVar(i - 1))
         IN  IF s.err THEN [t |-> s.t, err |-> TRUE]
             ELSE SubstAll(s.t, bvs, i + 1)

\* The rename-then-compare step shared by CaseClause, Fix and Match.
RenameCompare(this, this_bvs, other, other_bvs) ==
    LET a == SubstAll(this, SortNames(this_bvs), 1)
        b == SubstAll(other, SortNames(other_bvs), 1)
    IN  IF a.err \/ b.err THEN "raise" ELSE Bool(Term_eq(a.t, b.t))

CaseClause_alpha_equiv(c, d) ==
    IF Len(c.patterns) # Len(d.patterns) THEN "false"
    ELSE IF Len(CaseClause_bvs(c)) # Len(CaseClause_bvs(d)) THEN "false"
    ELSE RenameCompare(c.body, CaseClause_bvs(c), d.body, CaseClause_bvs(d))

\* for c1 in self.cases: for c2 in other.cases: from the pair (i, j) on; the
\* first pair that is not equivalent decides.
RECURSIVE Match_cases_alpha_equiv(_, _, _, _)
Match_cases_alpha_equiv(cs, ds, i, j) ==
    IF i > Len(cs) THEN "true"
    ELSE IF j > Len(ds) THEN Match_cases_alpha_equiv(cs, ds, i + 1, 1)
    ELSE AndThen(CaseClause_alpha_equiv(cs[i], ds[j]),
                 Match_cases_alpha_equiv(cs, ds, i, j + 1))

\* The subjects are counted, never compared.
Match_alpha_equiv(a, b) ==
    IF b.tag # "Match" THEN "false"
    ELSE IF Len(a.cases) # Len(b.cases) THEN "false"
    ELSE IF Len(a.subjects) # Len(b.subjects) THEN "false"
    ELSE AndThen(Match_cases_alpha_equiv(a.cases, b.cases, 1, 1),
                 IF Len(Match_bvs(a)) # Len(Match_bvs(b)) THEN "false"
                 ELSE RenameCompare(a.ret_ty, Match_bvs(a), b.ret_ty, Match_bvs(b)))

\* With no guard alias the return types are not compared.
Cond_alpha_equiv(a, b) ==
    IF b.tag # "Cond" THEN "false"
    ELSE IF (a.guard_alias = NoVar) # (b.guard_alias = NoVar) THEN "false"
    ELSE LET s1 == subst(a.ret_ty, a.guard_alias, SynthesizedVar(0))
             s2 == subst(b.ret_ty, b.guard_alias, SynthesizedVar(0))
             motive == IF a.guard_alias = NoVar THEN "true"
                       ELSE IF s1.err \/ s2.err THEN "raise"
                       ELSE Bool(Term_eq(SubstValue(s1), SubstValue(s2)))
         IN  AndThen(motive,
             AndThen(alpha_equiv(a.guard, b.guard),
             AndThen(alpha_equiv(a.then_branch, b.then_branch),
                     alpha_equiv(a.else_branch, b.else_branch))))

\* The parameter types are not compared.
Fix_alpha_equiv(a, b) ==
    IF b.tag # "Fix" THEN "false"
    ELSE IF Len(a.params) # Len(b.params) THEN "false"
    ELSE AndThen(alpha_equiv(a.ret_ty, b.ret_ty),
                 IF Len(Fix_bvs(a)) # Len(Fix_bvs(b)) THEN "false"
                 ELSE RenameCompare(a.body, Fix_bvs(a), b.body, Fix_bvs(b)))

\* Only the variable of this node is renamed; the bodies are then compared
\* with ==, through the values the two subst calls return.
TermAbstraction_alpha_equiv(a, b) ==
    IF ~IsAbstraction(b) THEN "false"
    ELSE AndThen(alpha_equiv(a.var_type, b.var_type),
                 IF a.var = b.var THEN alpha_equiv(a.body, b.body)
                 ELSE LET s1 == subst(a.body, a.var, SynthesizedVar(0))
                          s2 == subst(b.body, b.var, SynthesizedVar(0))
                      IN  IF s1.err \/ s2.err THEN "raise"
                          ELSE Bool(Term_eq(SubstValue(s1), SubstValue(s2))))

Fun_alpha_equiv(a, b) ==
    IF b.tag # "Fun" THEN "false" ELSE TermAbstraction_alpha_equiv(a, b)

Product_alpha_equiv(a, b) ==
    IF b.tag # "Product" THEN "false" ELSE TermAbstraction_alpha_equiv(a, b)

Let_alpha_equiv(a, b) ==
    IF b.tag # "Let" THEN "false"
    ELSE AndThen(TermAbstraction_alpha_equiv(a, b), alpha_equiv(a.var_def, b.var_def))

Cast_alpha_equiv(a, b) ==
    IF b.tag # "Cast" THEN "false"
    ELSE AndThen(alpha_equiv(a.term, b.term), alpha_equiv(a.term_type, b.term_type))

App_alpha_equiv(a, b) ==
    IF b.tag # "App" THEN "false"
    ELSE AndThen(alpha_equiv(a.func, b.func), alpha_equiv(a.arg, b.arg))

\* a.alpha_equiv(b); None has no such method.
alpha_equiv(a, b) ==
    CASE a.tag = "None" -> "raise"
      [] a.tag = "Var" -> Bool(Var_eq(a, b))
      [] a.tag = "Sort" -> Bool(Sort_eq(a, b))
      [] a.tag = "Fun" -> Fun_alpha_equiv(a, b)
      [] a.tag = "Product" -> Product_alpha_equiv(a, b)
      [] a.tag = "Let" -> Let_alpha_equiv(a, b)
      [] a.tag = "Cast" -> Cast_alpha_equiv(a, b)
      [] a.tag = "App" -> App_alpha_equiv(a, b)
      [] a.tag = "Cond" -> Cond_alpha_equiv(a, b)
      [] a.tag = "Fix" -> Fix_alpha_equiv(a, b)
      [] a.tag = "Match" -> Match_alpha_equiv(a, b)

\* a.alpha_equiv(b) together with what it leaves of its operands:
\* [res, this, other], the answer and the two objects as they are when the
\* call returns or raises.  subst is the only code that assigns to a field
\* of a term, so an operand changes where a subst reaches one of its own
\* sub-terms, directly or in a nested call that was evaluated.
RECURSIVE alpha_equiv_call(_, _)

Call(verdict, a, b) == [res |-> verdict, this |-> a, other |-> b]

\* ... and self.f.alpha_equiv(other.f): evaluated only if everything before
\* it answered True.
NestedCall(c, f) ==
    IF c.res # "true" THEN c
    ELSE LET q == CHOOSE x \in {alpha_equiv_call(c.this[f], c.other[f])} : TRUE
         IN  Call(q.res, [c.this EXCEPT ![f] = q.this],
                         [c.other EXCEPT ![f] = q.other])

\* TermAbstraction.alpha_equiv with the two subst calls applied to the
\* bodies themselves instead of copies of them.
TermAbstraction_alpha_equiv_call_no_copy(a, b) ==
    IF ~IsAbstraction(b) THEN Call("false", a, b)
    ELSE LET c == CHOOSE x \in {NestedCall(Call("true", a, b), "var_type")} : TRUE
         IN  IF c.res # "true" THEN c
             ELSE IF a.var = b.var THEN NestedCall(c, "body")
             ELSE LET s1 == subst(a.body, a.var, SynthesizedVar(0))
                      s2 == subst(b.body, b.var, SynthesizedVar(0))
                  IN  IF s1.err
                      THEN Call("raise", [c.this EXCEPT !.body = s1.t], c.other)
                      ELSE Call(IF s2.err THEN "raise"
                                ELSE Bool(Term_eq(SubstValue(s1), SubstValue(s2))),
                                [c.this EXCEPT !.body = s1.t],
                                [c.other EXCEPT !.body = s2.t])

\* Lines 1140-1141 substitute in deepcopy(self._body) and
\* deepcopy(other._body): the bodies of the operands are not reached.
TermAbstraction_alpha_equiv_call(a, b) ==
    IF ~IsAbstraction(b) THEN Call("false", a, b)
    ELSE LET c == CHOOSE x \in {NestedCall(Call("true", a, b), "var_type")} : TRUE
         IN  IF c.res # "true" THEN c
             ELSE IF a.var = b.var THEN NestedCall(c, "body")
             ELSE LET s1 == subst(a.body, a.var, SynthesizedVar(0))
                      s2 == subst(b.body, b.var, SynthesizedVar(0))
                  IN  Call(IF s1.err \/ s2.err THEN "raise"
                           ELSE Bool(Term_eq(SubstValue(s1), SubstValue(s2))),
                           c.this, c.other)

\* Cond: the motives are substituted in copies (lines 682-683); guard and
\* branches are compared by nested calls.
Cond_alpha_equiv_call(a, b) ==
    IF b.tag # "Cond" THEN Call("false", a, b)
    ELSE IF (a.guard_alias = NoVar) # (b.guard_alias = NoVar) THEN Call("false", a, b)
    ELSE LET s1 == subst(a.ret_ty, a.guard_alias, SynthesizedVar(0))
             s2 == subst(b.ret_ty, b.guard_alias, SynthesizedVar(0))
             motive == IF a.guard_alias = NoVar THEN "true"
                       ELSE IF s1.err \/ s2.err THEN "raise"
                       ELSE Bool(Term_eq(SubstValue(s1), SubstValue(s2)))
         IN  NestedCall(NestedCall(NestedCall(Call(motive, a, b), "guard"), "then_branch"),
                    "else_branch")

\* Fix: the return types are compared by a nested call, the bodies after
\* substitution in copies (lines 907-912).
Fix_alpha_equiv_call(a, b) ==
    IF b.tag # "Fix" THEN Call("false", a, b)
    ELSE IF Len(a.params) # Len(b.params) THEN Call("false", a, b)
    ELSE LET c == CHOOSE x \in {NestedCall(Call("true", a, b), "ret_ty")} : TRUE
         IN  IF c.res # "true" THEN c
             ELSE Call(IF Len(Fix_bvs(a)) # Len(Fix_bvs(b)) THEN "false"
                       ELSE RenameCompare(a.body, Fix_bvs(a), b.body, Fix_bvs(b)),
                       c.this, c.other)

\* Every variant.  Var and Sort compare names; Match and its clauses
\* substitute in copies (lines 295-301, 537-543) and make no nested call on
\* a term.
alpha_equiv_call(a, b) ==
    CASE a.tag = "None" -> Call("raise", a, b)
      [] a.tag = "Var" -> Call(Bool(Var_eq(a, b)), a, b)
      [] a.tag = "Sort" -> Call(Bool(Sort_eq(a, b)), a, b)
      [] a.tag = "Match" -> Call(Match_alpha_equiv(a, b), a, b)
      [] a.tag \in {"Fun", "Product"} ->
            IF b.tag # a.tag THEN Call("false", a, b)
            ELSE TermAbstraction_alpha_equiv_call(a, b)
      [] a.tag = "Let" ->
            IF b.tag # "Let" THEN Call("false", a, b)
            ELSE NestedCall(TermAbstraction_alpha_equiv_call(a, b), "var_def")
      [] a.tag = "Cast" ->
            IF b.tag # "Cast" THEN Call("false", a, b)
            ELSE NestedCall(NestedCall(Call("true", a, b), "term"), "term_type")
      [] a.tag = "App" ->
            IF b.tag # "App" THEN Call("false", a, b)
            ELSE NestedCall(NestedCall(Call("true", a, b), "func"), "arg")
      [] a.tag = "Cond" -> Cond_alpha_equiv_call(a, b)
      [] a.tag = "Fix" -> Fix_alpha_equiv_call(a, b)

-----------------------------------------------------------------------------
(* The terms the operations are applied to                                 *)

MaxCases == 2     \* case clauses of a generated Match
MaxParams == 1    \* binders of a generated Fix

Names == {"x", "y"}            \* the names that occur in generated terms
SubstNames == Names \cup {"v"} \* arguments of subst; "v" occurs in no term

Prop == Sort("Prop")
Atoms == {Var(n) : n \in Names} \cup {Prop}

\* match y with end, without a return type
NoMotiveMatch == Match(<<MatchSubject(Var("y"), NoVar, NoneT)>>, <<>>, NoneT)

Clauses ==
    {CaseClause(<<Pattern(<<"O">>, NoVar)>>, Var("x")),
     CaseClause(<<Pattern(<<"S", "x">>, NoVar)>>, Var("x")),
     CaseClause(<<Pattern(<<"S", "y">>, NoVar)>>, Var("y")),
     CaseClause(<<Pattern(<<"S", "x">>, NoVar)>>, NoMotiveMatch)}

CaseSeqs == UNION {[1..n -> Clauses] : n \in 0..MaxCases}

Matches ==
    {Match(<<MatchSubject(Var(n), al, NoneT)>>, cs, rt) :
        n \in Names, al \in {NoVar, "x"}, cs \in CaseSeqs, rt \in {NoneT, Var("x")}}

Binders == {Binder(<<"x">>, Prop), Binder(<<"y">>, Var("x"))}

ParamSeqs == UNION {[1..n -> Binders] : n \in 0..MaxParams}

Fixes ==
    {Fix(n, ps, rt, b, NoVar) :
        n \in Names, ps \in ParamSeqs, rt \in {Prop, Var("x")}, b \in Atoms}

Abstractions ==
    {Fun(n, ty, b) : n \in Names, ty \in Atoms, b \in Atoms}
    \cup {Product(n, ty, b) : n \in Names, ty \in Atoms, b \in Atoms}
    \cup {Let(n, ty, d, b) :
            n \in Names, ty \in {Prop, Var("x")}, d \in Atoms, b \in {Var(m) : m \in Names}}

Composites ==
    {Cast(a, b) : a \in Atoms, b \in Atoms} \cup {App(a, b) : a \in Atoms, b \in Atoms}

Conds ==
    {Cond(Var(g), rt, th, Var("y"), al) :
        g \in Names, rt \in Atoms, th \in {Var("x"), Prop}, al \in {NoVar} \cup Names}

\* Terms nested under a second binder or composite.
Inner ==
    {Fun(n, Prop, Var(m)) : n \in Names, m \in Names}
    \cup {Fix(n, <<>>, Prop, Var(m), NoVar) : n \in Names, m \in Names}
    \cup {App(Var(n), Var(m)) : n \in Names, m \in Names}

Nested ==
    {Fun(n, Prop, b) : n \in Names, b \in Inner}
    \cup {Product(n, Prop, b) : n \in Names, b \in Inner}
    \cup {App(Var(n), b) : n \in Names, b \in Inner}
    \cup {Cond(Var("x"), b, Var("x"), Var("y"), al) : b \in Inner, al \in {NoVar, "x"}}
    \cup {Product(n, Prop, Product(m, Prop, App(Var(a), Var(b)))) :
            n \in Names, m \in Names, a \in Names, b \in Names}

Terms ==
    Atoms \cup Abstractions \cup Composites \cup Conds \cup Fixes \cup Matches
    \cup Nested

\* The second operand of a comparison: a term of the same variant, an atom,
\* or None.
Partners(t) == {u \in Terms : u.tag = t.tag} \cup Atoms \cup {NoneT}

-----------------------------------------------------------------------------
(* The variable dependency graph (src/var_dag.py)                          *)
(* A graph is a record [adj, keys]: the dict __adj and the insertion order *)
(* of its keys, which is the order a Python dict iterates in.              *)

EmptyDAG == [adj |-> <<>>, keys |-> <<>>]

add_node(g, node) ==
    IF node \in DOMAIN g.adj THEN g
    ELSE [adj |-> [n \in DOMAIN g.adj \cup {node} |->
                      IF n = node THEN <<>> ELSE g.adj[n]],
          keys |-> Append(g.keys, node)]

add_edge(g, src, dst) ==
    LET h == add_node(add_node(g, src), dst)
    IN  [h EXCEPT !.adj[src] = Append(@, dst)]

\* The traversal state: __visited, local_visited, __topo_sort_res, and
\* whether ValueError('Not a DAG') was raised.
RECURSIVE dfs_visit(_, _, _)
RECURSIVE dfs_successors(_, _, _, _)

\* __dfs_visit without the elif that raises on a back edge
dfs_successors_no_raise(g, node, i, st) ==
    IF i > Len(g.adj[node]) THEN st
    ELSE LET v == g.adj[node][i]
         IN  IF v \notin st.visited
             THEN LET s2 == dfs_visit(g, v, st)
                  IN  IF s2.err THEN s2 ELSE dfs_successors(g, node, i + 1, s2)
             ELSE dfs_successors(g, node, i + 1, st)

\* for v in self.__adj[node], from index i on
dfs_successors(g, node, i, st) ==
    IF i > Len(g.adj[node]) THEN st
    ELSE LET v == g.adj[node][i]
         IN  IF v \notin st.visited
             THEN LET s2 == dfs_visit(g, v, st)
                  IN  IF s2.err THEN s2 ELSE dfs_successors(g, node, i + 1, s2)
             ELSE IF v \in st.local THEN [st EXCEPT !.err = TRUE]
             ELSE dfs_successors(g, node, i + 1, st)

\* A finished node is inserted at the front of the result.
dfs_visit(g, node, st) ==
    LET s1 == [st EXCEPT !.visited = @ \cup {node}, !.local = @ \cup {node}]
        s2 == dfs_successors(g, node, 1, s1)
    IN  IF s2.err THEN s2
        ELSE [s2 EXCEPT !.res = <<node>> \o @, !.local = @ \ {node}]

\* for node in self.__adj, from index i on; each root gets a fresh set().
RECURSIVE dfs_roots(_, _, _)
dfs_roots(g, i, st) ==
    IF i > Len(g.keys) THEN st
    ELSE IF g.keys[i] \in st.visited THEN dfs_roots(g, i + 1, st)
    ELSE LET s2 == dfs_visit(g, g.keys[i], [st EXCEPT !.local = {}])
         IN  IF s2.err THEN s2 ELSE dfs_roots(g, i + 1, s2)

get_topological_ordering(g) ==
    dfs_roots(g, 1, [visited |-> {}, local |-> {}, res |-> <<>>, err |-> FALSE])

-----------------------------------------------------------------------------
(* The goal generalizer (src/util.py)                                      *)
(* A text is the list of its tokens.  A hypothesis "a, b : P c" is         *)
(* <<"a", ",", "b", ":", "P", "c">>.                                      *)

\* d.index(':'): the position of the first colon (0 if there is none)
RECURSIVE IndexOfColon(_, _)
IndexOfColon(d, i) ==
    IF i > Len(d) THEN 0 ELSE IF d[i] = ":" THEN i ELSE IndexOfColon(d, i + 1)

\* d[:index_of_colon].split(','), each part stripped
DefnVars(d) == SelectSeq(SubSeq(d, 1, IndexOfColon(d, 1) - 1), LAMBDA x : x # ",")

\* d[index_of_colon + 1:].strip()
DefnBody(d) == SubSeq(d, IndexOfColon(d, 1) + 1, Len(d))

\* The AST of a text that is an application f a b ...: App(App(f, a), b).
RECURSIVE ParseApp(_, _)
ParseApp(text, n) ==
    IF n = 1 THEN Var(text[1]) ELSE App(ParseApp(text, n - 1), Var(text[n]))

\* The position of the first ")" of a text (0 if there is none).
RECURSIVE CloseParen(_, _)
CloseParen(text, i) ==
    IF i > Len(text) THEN 0 ELSE IF text[i] = ")" THEN i ELSE CloseParen(text, i + 1)

\* The AST of a text: forall (x : ty), (body) is Product.build of the one
\* binder and the parenthesized body, any other text an application.
RECURSIVE ParseTerm(_)
ParseTerm(text) ==
    IF text # <<>> /\ text[1] = "forall"
    THEN LET c == CloseParen(text, 1)
         IN  Product(text[3],
                     ParseApp(SubSeq(text, 5, c - 1), c - 5),
                     ParseTerm(SubSeq(text, c + 3, Len(text) - 1)))
    ELSE ParseApp(text, Len(text))

GoalParser_parse(text) == ParseTerm(text)

\* local_context after the first i hypotheses: name -> (type text, free
\* variables of the type); a later hypothesis replaces an earlier entry.
RECURSIVE LocalContext(_, _)
LocalContext(hyps, i) ==
    IF i = 0 THEN <<>>
    ELSE LET prev == LocalContext(hyps, i - 1)
             d == hyps[i]
             entry == <<DefnBody(d), free_vars(GoalParser_parse(DefnBody(d)))>>
         IN  [n \in DOMAIN prev \cup Range(DefnVars(d)) |->
                 IF n \in Range(DefnVars(d)) THEN entry ELSE prev[n]]

\* The inner loop of make_dag: for d in local_context[s][1], in the order ds.
RECURSIVE make_dag_edges(_, _, _, _, _)
make_dag_edges(g, s, ds, i, local_context) ==
    IF i > Len(ds) THEN g
    ELSE make_dag_edges(
            IF ds[i] \in DOMAIN local_context THEN add_edge(g, s, ds[i]) ELSE g,
            s, ds, i + 1, local_context)

\* make_dag, from the i-th element of locally_defined_fvs on.  The two sets
\* are iterated in the orders ss and inner[s]: a Python set has no order of
\* its own.
RECURSIVE make_dag(_, _, _, _, _)
make_dag(g, ss, inner, i, local_context) ==
    IF i > Len(ss) THEN g
    ELSE make_dag(
            make_dag_edges(add_node(g, ss[i]), ss[i], inner[ss[i]], 1, local_context),
            ss, inner, i + 1, local_context)

Reverse(s) == [i \in 1..Len(s) |-> s[Len(s) + 1 - i]]

\* 'forall (%s : %s), (%s)' % (fv, type, goal)
Forall(fv, ty, goal) ==
    <<"forall", "(", fv, ":">> \o ty \o <<")", ",", "(">> \o goal \o <<")">>

\* for fv in rev_top_order: goal = 'forall ...' % ..., from index i on
RECURSIVE Wrap(_, _, _, _)

\* the loop of generalize leaving out the last variable of rev_top_order
Wrap_without_last(goal, order, i, local_context) ==
    IF i >= Len(order) THEN goal
    ELSE Wrap(Forall(order[i], local_context[order[i]][1], goal),
              order, i + 1, local_context)

Wrap(goal, order, i, local_context) ==
    IF i > Len(order) THEN goal
    ELSE Wrap(Forall(order[i], local_context[order[i]][1], goal),
              order, i + 1, local_context)

\* The orders a set may be iterated in.
Perms(S) == {p \in [1..Cardinality(S) -> S] : \A i, j \in DOMAIN p : i # j => p[i] # p[j]}

locally_defined_fvs(goal, hyps) ==
    free_vars(GoalParser_parse(goal)) \cap DOMAIN LocalContext(hyps, Len(hyps))

\* generalize(proof_tree, goal) with local context hyps, the sets iterated
\* in the orders ss and inner: [text, err].
generalize(goal, hyps, ss, inner) ==
    LET local_context == LocalContext(hyps, Len(hyps))
        dag == make_dag(EmptyDAG, ss, inner, 1, local_context)
        top == get_topological_ordering(dag)
    IN  IF top.err THEN [text |-> goal, order |-> <<>>, err |-> TRUE]
        ELSE [text |-> Wrap(goal, Reverse(top.res), 1, local_context),
              order |-> top.res, err |-> FALSE]

-----------------------------------------------------------------------------
(* The clone search (src/main.py, src/alpha.py, is_prod_body of util.py)   *)
(* A candidate is the tuple of goals_list: [goal, thm, proof, gen].        *)

\* The loop with the comparison before the first unwrapping.
RECURSIVE is_prod_body_compare_first(_, _)
is_prod_body_compare_first(p, t) ==
    IF Term_eq(p, t) THEN TRUE
    ELSE IF p.tag # "Product" THEN FALSE
    ELSE is_prod_body_compare_first(p.body, t)

\* is_prod_body: p loses one Product layer before each comparison.
RECURSIVE is_prod_body(_, _)
is_prod_body(p, t) ==
    IF p.tag # "Product" THEN FALSE
    ELSE IF Term_eq(p.body, t) THEN TRUE
    ELSE is_prod_body(p.body, t)

\* redundant_goals: the generalized texts main collects in its double loop.
redundant_goals(goals_list, goal_ast_map) ==
    {goals_list[j].gen : j \in
        {j \in 1..Len(goals_list) :
            \E i \in 1..Len(goals_list) :
                LET a1 == goal_ast_map[goals_list[i].gen]
                    a2 == goal_ast_map[goals_list[j].gen]
                IN  a1.tag = "Product" /\ is_prod_body(a1, a2)}}

\* goals_list = [g for g in goals_list if g[4] not in redundant_goals]
remove_redundant(goals_list, goal_ast_map) ==
    SelectSeq(goals_list,
              LAMBDA g : g.gen \notin redundant_goals(goals_list, goal_ast_map))

\* The comparison without the test on the theorem names.
compare_goals_no_skip(goals_list, goal_ast_map, i, j, report) ==
    LET r == alpha_equiv(goal_ast_map[goals_list[i].gen],
                         goal_ast_map[goals_list[j].gen])
    IN  IF r = "raise" THEN [report |-> report, err |-> TRUE]
        ELSE [report |-> IF r = "true" THEN Append(report, <<i, j>>) ELSE report,
              err |-> FALSE]

\* The body of the inner loop of find_alpha_equiv_goals (alpha.py 12-31) for
\* the pair (i, j): the pairs written to the results file so far, and whether
\* alpha_equiv raised (which ends the run).
compare_goals(goals_list, goal_ast_map, i, j, report) ==
    IF goals_list[i].thm = goals_list[j].thm
    THEN [report |-> report, err |-> FALSE]
    ELSE LET r == alpha_equiv(goal_ast_map[goals_list[i].gen],
                              goal_ast_map[goals_list[j].gen])
         IN  IF r = "raise" THEN [report |-> report, err |-> TRUE]
             ELSE [report |-> IF r = "true" THEN Append(report, <<i, j>>) ELSE report,
                   err |-> FALSE]

-----------------------------------------------------------------------------
(* Specification of the term operations: one call on a generated term      *)

Idle == [none |-> TRUE]

InitTerm ==
    /\ t1 \in Terms
    /\ t2 = NoneT
    /\ op = "init"
    /\ arg = Idle
    /\ res = Idle
    /\ adj = <<>>
    /\ keys = <<>>
    /\ topo = Idle
    /\ gen = Idle
    /\ ptree = Idle
    /\ clone = Idle

\* res = t1.alpha_equiv(other); t1 and t2 are the two objects after the
\* call, arg holds them as they were before it.
AlphaEquiv ==
    /\ op = "init"
    /\ \E other \in Partners(t1) :
        \E call \in {alpha_equiv_call(t1, other)} :
            /\ arg' = [this |-> t1, other |-> other]
            /\ t1' = call.this
            /\ t2' = call.other
            /\ res' = call.res
    /\ op' = "alpha_equiv"
    /\ UNCHANGED <<adj, keys, topo, gen, ptree, clone>>

\* res = is_prod_body(t1, other): the loop rebinds its local p and compares
\* with ==; nothing is assigned to a field of either term.
IsProdBody ==
    /\ op = "init"
    /\ \E other \in Partners(t1) :
        /\ arg' = [this |-> t1, other |-> other]
        /\ t2' = other
        /\ res' = Bool(is_prod_body(t1, other))
    /\ op' = "is_prod_body"
    /\ UNCHANGED <<t1, adj, keys, topo, gen, ptree, clone>>

\* t1.subst(Var(v), Var(r)): t1 is updated in place, also when the call raises.
Subst ==
    /\ op = "init"
    /\ \E v \in SubstNames, r \in SubstNames :
        LET s == subst(t1, v, r)
        IN  /\ t1' = s.t
            /\ arg' = [var |-> v, replacement |-> r, before |-> t1]
            /\ res' = IF s.err THEN "raise" ELSE IF s.none THEN "None" ELSE "self"
    /\ op' = "subst"
    /\ UNCHANGED <<t2, adj, keys, topo, gen, ptree, clone>>

\* res = t1.free_vars()
FreeVars ==
    /\ op = "init"
    /\ res' = free_vars(t1)
    /\ op' = "free_vars"
    /\ UNCHANGED <<t1, t2, arg, adj, keys, topo, gen, ptree, clone>>

\* t2 = deepcopy(t1).subst(Var(x), Var(v)); res = t1.alpha_equiv(t2)
AlphaEquivRenamed ==
    /\ op = "init"
    /\ \E x \in Names, v \in SubstNames :
        LET s == subst(t1, x, v)
        IN  /\ arg' = [var |-> x, replacement |-> v, before |-> t1]
            /\ t2' = IF s.err THEN NoneT ELSE SubstValue(s)
            /\ res' = IF s.err THEN "raise" ELSE alpha_equiv(t1, SubstValue(s))
    /\ op' = "alpha_equiv_renamed"
    /\ UNCHANGED <<t1, adj, keys, topo, gen, ptree, clone>>

\* res = (t1 == other)
Eq ==
    /\ op = "init"
    /\ \E other \in Partners(t1) :
        /\ t2' = other
        /\ res' = Bool(Term_eq(t1, other))
    /\ op' = "eq"
    /\ UNCHANGED <<t1, arg, adj, keys, topo, gen, ptree, clone>>

NextTerm ==
    AlphaEquiv \/ Subst \/ FreeVars \/ AlphaEquivRenamed \/ Eq \/ IsProdBody

SpecTerm == InitTerm /\ [][NextTerm]_vars

-----------------------------------------------------------------------------
(* Specification of the dependency graph: any sequence of add_node and     *)
(* add_edge calls, and calls of get_topological_ordering                   *)

MaxEdges == 3     \* add_edge calls on one graph

Nodes == {"a", "b", "c"}

EdgeCount(g) == Len(Flatten([i \in 1..Len(g.keys) |-> g.adj[g.keys[i]]]))

InitDag ==
    /\ adj = <<>>
    /\ keys = <<>>
    /\ topo = Idle
    /\ t1 = NoneT
    /\ t2 = NoneT
    /\ op = "init"
    /\ arg = Idle
    /\ res = Idle
    /\ gen = Idle
    /\ ptree = Idle
    /\ clone = Idle

DAG == [adj |-> adj, keys |-> keys]

AddNode ==
    /\ \E n \in Nodes :
        LET g == add_node(DAG, n)
        IN  adj' = g.adj /\ keys' = g.keys
    /\ UNCHANGED <<t1, t2, op, arg, res, topo, gen, ptree, clone>>

AddEdge ==
    /\ EdgeCount(DAG) < MaxEdges
    /\ \E s \in Nodes, d \in Nodes :
        LET g == add_edge(DAG, s, d)
        IN  adj' = g.adj /\ keys' = g.keys
    /\ UNCHANGED <<t1, t2, op, arg, res, topo, gen, ptree, clone>>

\* The outcome is kept with the graph it was computed from.
GetTopologicalOrdering ==
    /\ LET st == get_topological_ordering(DAG)
       IN  topo' = [graph |-> DAG, res |-> st.res, err |-> st.err]
    /\ UNCHANGED <<t1, t2, op, arg, res, adj, keys, gen, ptree, clone>>

NextDag == AddNode \/ AddEdge \/ GetTopologicalOrdering

SpecDag == InitDag /\ [][NextDag]_vars

-----------------------------------------------------------------------------
(* Specification of the generalizer: one call on a generated goal          *)

MaxHyps == 3      \* hypotheses of a generated local context

Hyp(ns, ty) == ns \o <<":">> \o ty

Hyps ==
    {Hyp(<<"a">>, <<"nat">>), Hyp(<<"b">>, <<"nat">>), Hyp(<<"c">>, <<"nat">>),
     Hyp(<<"b">>, <<"P", "a">>), Hyp(<<"a">>, <<"P", "b">>),
     Hyp(<<"c">>, <<"P", "b">>), Hyp(<<"c">>, <<"P", "c">>),
     Hyp(<<"a", ",", "b">>, <<"nat">>), Hyp(<<"b", ",", "c">>, <<"P", "a">>)}

Contexts == UNION {[1..n -> Hyps] : n \in 0..MaxHyps}

Goals == {<<"G">>, <<"G", "b">>, <<"G", "c">>, <<"G", "a", "b">>, <<"G", "b", "c">>}

InitGen ==
    /\ \E goal \in Goals, hyps \in Contexts :
        gen = [goal |-> goal, hyps |-> hyps, called |-> FALSE]
    /\ adj = <<>>
    /\ keys = <<>>
    /\ topo = Idle
    /\ t1 = NoneT
    /\ t2 = NoneT
    /\ op = "init"
    /\ arg = Idle
    /\ res = Idle
    /\ ptree = Idle
    /\ clone = Idle

\* The bound values are the dict and the set the call computes first; ss and
\* inner are the iteration orders of the sets.
Generalize ==
    /\ ~gen.called
    /\ \E local_context \in {LocalContext(gen.hyps, Len(gen.hyps))} :
       \E fvs \in {locally_defined_fvs(gen.goal, gen.hyps)} :
       \E ss \in Perms(fvs) :
       \E inner \in [fvs -> UNION {Perms(local_context[s][2]) : s \in fvs}] :
           /\ \A s \in fvs : inner[s] \in Perms(local_context[s][2])
           /\ LET out == generalize(gen.goal, gen.hyps, ss, inner)
              IN  gen' = [goal |-> gen.goal, hyps |-> gen.hyps, called |-> TRUE,
                          text |-> out.text, order |-> out.order, err |-> out.err]
    /\ UNCHANGED <<t1, t2, op, arg, res, adj, keys, topo, ptree, clone>>

NextGen == Generalize

SpecGen == InitGen /\ [][NextGen]_vars

-----------------------------------------------------------------------------
(* The proof tree (src/proof_tree.py)                                      *)
(* A tree is the dict __tree: keys is the insertion order of its keys,     *)
(* node maps a key to its record.  A goal is the tuple                     *)
(* (locally_defined_symbols, local_context, text) of build_forests.        *)

EmptyTree == [keys |-> <<>>, node |-> <<>>]

\* __add_node that leaves the record of a key already present alone.
ProofTree_add_node_keep_first(tree, node, locally_defined_symbols, local_context, children, tactic) ==
    LET m == [symbols |-> locally_defined_symbols, context |-> local_context,
              children |-> children, tactic |-> tactic]
    IN  [keys |-> IF node \in DOMAIN tree.node THEN tree.keys ELSE Append(tree.keys, node),
         node |-> [n \in DOMAIN tree.node \cup {node} |->
                      IF n \in DOMAIN tree.node THEN tree.node[n] ELSE m]]

\* self.__tree[node] = {...}: a key already present keeps its position.
ProofTree_add_node(tree, node, locally_defined_symbols, local_context, children, tactic) ==
    LET m == [symbols |-> locally_defined_symbols, context |-> local_context,
              children |-> children, tactic |-> tactic]
    IN  [keys |-> IF node \in DOMAIN tree.node THEN tree.keys ELSE Append(tree.keys, node),
         node |-> [n \in DOMAIN tree.node \cup {node} |->
                      IF n = node THEN m ELSE tree.node[n]]]

\* __get_proof: st = [acc, visited]; the loop over m['children'] from index i on.
RECURSIVE ProofTree_get_proof_visit(_, _, _)
RECURSIVE ProofTree_get_proof_children(_, _, _, _)

ProofTree_get_proof_children(tree, children, i, st) ==
    IF i > Len(children) THEN st
    ELSE ProofTree_get_proof_children(tree, children, i + 1,
            ProofTree_get_proof_visit(tree, children[i], st))

\* __get_proof appending the tactic after the loop over the children
ProofTree_get_proof_visit_postorder(tree, node, st) ==
    IF node \notin DOMAIN tree.node THEN st
    ELSE IF node \in st.visited THEN st
    ELSE LET s2 == ProofTree_get_proof_children(tree, tree.node[node].children, 1,
                        [acc |-> st.acc, visited |-> st.visited \cup {node}])
         IN  [s2 EXCEPT !.acc = Append(@, tree.node[node].tactic)]

ProofTree_get_proof_visit(tree, node, st) ==
    IF node \notin DOMAIN tree.node THEN st
    ELSE IF node \in st.visited THEN st
    ELSE ProofTree_get_proof_children(tree, tree.node[node].children, 1,
            [acc |-> Append(st.acc, tree.node[node].tactic),
             visited |-> st.visited \cup {node}])

ProofTree_get_proof(tree, node) ==
    ProofTree_get_proof_visit(tree, node, [acc |-> <<>>, visited |-> {}]).acc

\* re.fullmatch(r'(-+|\++|\*+)', s): a text is the list of its characters.
\* is_bullet matching runs of '-' only.
is_bullet_dash_only(s) ==
    /\ s # <<>>
    /\ \A i \in 1..Len(s) : s[i] = "-"

is_bullet(s) ==
    /\ s # <<>>
    /\ \E c \in {"-", "+", "*"} : \A i \in 1..Len(s) : s[i] = c

\* [g for g in xs if g not in ys]
NotIn(xs, ys) == SelectSeq(xs, LAMBDA g : g \notin Range(ys))

\* for goal in disappeared_goals: proof_tree.__add_node(...), from index i on
RECURSIVE add_disappeared(_, _, _, _, _)
add_disappeared(tree, disappeared_goals, i, new_goals, tactic) ==
    IF i > Len(disappeared_goals) THEN tree
    ELSE add_disappeared(
            ProofTree_add_node(tree, disappeared_goals[i].text,
                               disappeared_goals[i].symbols,
                               disappeared_goals[i].context,
                               [k \in 1..Len(new_goals) |-> new_goals[k].text],
                               tactic),
            disappeared_goals, i + 1, new_goals, tactic)

\* replay_step without goal_stack.pop().
replay_step_no_pop(tree, goal_stack, tactic, current_state) ==
    IF goal_stack # <<>>
    THEN LET previous_goals == goal_stack[Len(goal_stack)]
             disappeared_goals == NotIn(previous_goals, current_state)
             new_goals == NotIn(current_state, previous_goals)
         IN  [tree |-> add_disappeared(tree, disappeared_goals, 1, new_goals, tactic),
              goal_stack |-> Append(goal_stack, current_state)]
    ELSE [tree |-> tree, goal_stack |-> Append(goal_stack, current_state)]

\* One pass of the replay loop for a step that is not a bullet and yields
\* goal data: [tree, goal_stack] after it.
replay_step(tree, goal_stack, tactic, current_state) ==
    IF goal_stack # <<>>
    THEN LET previous_goals == goal_stack[Len(goal_stack)]
             popped == SubSeq(goal_stack, 1, Len(goal_stack) - 1)
             disappeared_goals == NotIn(previous_goals, current_state)
             new_goals == NotIn(current_state, previous_goals)
         IN  [tree |-> add_disappeared(tree, disappeared_goals, 1, new_goals, tactic),
              goal_stack |-> Append(popped, current_state)]
    ELSE [tree |-> tree, goal_stack |-> Append(goal_stack, current_state)]

-----------------------------------------------------------------------------
(* Specification of the replay of one proof: the while loop of             *)
(* build_forests, with the execution service choosing each step's text and *)
(* the goals open after it                                                 *)

MaxSteps == 3     \* steps executed inside one proof
MaxGoals == 2     \* goals open at the same time

Goal(symbols, context, text) == [symbols |-> symbols, context |-> context, text |-> text]

\* "B" occurs with two local contexts.
GoalTuples ==
    {Goal(<<>>, <<>>, "A"), Goal(<<>>, <<>>, "B"),
     Goal(<<"H">>, <<"H : A">>, "B"), Goal(<<>>, <<>>, "A /\\ B")}

GoalOrder ==
    <<Goal(<<>>, <<>>, "A"), Goal(<<>>, <<>>, "B"),
      Goal(<<"H">>, <<"H : A">>, "B"), Goal(<<>>, <<>>, "A /\\ B")>>

\* The lists of up to MaxGoals different open goals, in the order of GoalOrder.
GoalStates ==
    {SelectSeq(GoalOrder, LAMBDA g : g \in S) :
        S \in {T \in SUBSET GoalTuples : Cardinality(T) <= MaxGoals}}

\* Sanitized step texts: two tactics, two bullets, and a text of marker
\* characters that is no bullet.
Tactics == {<<"s">>, <<"a">>, <<"-">>, <<"+", "+">>, <<"-", "*">>}

\* After the theorem statement its single goal is open; goal_stack = [] and
\* proof_tree = ProofTree(theorem_name).  forest holds the trees that were
\* appended for this theorem before proof_tree.
InitReplay ==
    /\ \E g \in GoalTuples :
        ptree = [goals |-> <<g>>, goal_stack |-> <<>>, tree |-> EmptyTree,
                 forest |-> <<>>, pc |-> "replay", steps |-> 0, last |-> Idle]
    /\ clone = Idle
    /\ adj = <<>>
    /\ keys = <<>>
    /\ topo = Idle
    /\ gen = Idle
    /\ t1 = NoneT
    /\ t2 = NoneT
    /\ op = "init"
    /\ arg = Idle
    /\ res = Idle

\* What an executed step leaves behind for inspection: the step and the
\* state it started from; of the step before it its kind, the goals after it
\* and the tree and stack it started from; and the kinds of all the steps
\* before it.
Executed(kind, tactic, after) ==
    [kind |-> kind, tactic |-> tactic, before |-> ptree.goals, after |-> after,
     tree |-> ptree.tree, goal_stack |-> ptree.goal_stack,
     prev |-> IF ptree.last = Idle THEN Idle
              ELSE [kind |-> ptree.last.kind, after |-> ptree.last.after,
                    tree |-> ptree.last.tree,
                    goal_stack |-> ptree.last.goal_stack],
     kinds |-> IF ptree.last = Idle THEN <<>>
               ELSE Append(ptree.last.kinds, ptree.last.kind)]

\* A step that is no bullet and yields the goals `after`.
ReplayTactic ==
    /\ ptree.pc = "replay"
    /\ ptree.steps < MaxSteps
    /\ \E tactic \in Tactics, after \in GoalStates :
        /\ ~is_bullet(tactic)
        /\ LET out == replay_step(ptree.tree, ptree.goal_stack, tactic, after)
           IN  ptree' = [goals |-> after, goal_stack |-> out.goal_stack,
                         tree |-> out.tree, forest |-> ptree.forest,
                         pc |-> IF after = <<>> THEN "closed" ELSE "replay",
                         steps |-> ptree.steps + 1,
                         last |-> Executed("tactic", tactic, after)]
    /\ UNCHANGED <<t1, t2, op, arg, res, adj, keys, topo, gen, clone>>

\* A bullet moves the focus and opens no goal; the goals reported after it
\* are some of those before it.  current_state is computed (lines 107-115)
\* and dropped by the continue of line 118, which leaves tree and stack
\* alone.
ReplayBullet ==
    /\ ptree.pc = "replay"
    /\ ptree.steps < MaxSteps
    /\ \E tactic \in Tactics, after \in GoalStates \ {<<>>} :
        /\ is_bullet(tactic)
        /\ Range(after) \subseteq Range(ptree.goals)
        /\ ptree' = [ptree EXCEPT !.goals = after, !.steps = @ + 1,
                                  !.last = Executed("bullet", tactic, after)]
    /\ UNCHANGED <<t1, t2, op, arg, res, adj, keys, topo, gen, clone>>

\* current_goals.goals is None: break.
ReplayNoGoals ==
    /\ ptree.pc = "replay"
    /\ ptree.steps < MaxSteps
    /\ \E tactic \in Tactics :
        ptree' = [ptree EXCEPT !.pc = "broken", !.steps = @ + 1,
                               !.last = Executed("none", tactic, ptree.goals)]
    /\ UNCHANGED <<t1, t2, op, arg, res, adj, keys, topo, gen, clone>>

\* After the break the loop over the steps of the file goes on (line 85): it
\* executes the next step and, the file being still inside the proof, starts
\* over at line 88 with goal_stack = [] and a new ProofTree(theorem_name),
\* appended to the forest after the tree left behind.
ReplayResume ==
    /\ ptree.pc = "broken"
    /\ ptree.steps < MaxSteps
    /\ \E tactic \in Tactics, after \in GoalStates :
        ptree' = [goals |-> after, goal_stack |-> <<>>, tree |-> EmptyTree,
                  forest |-> Append(ptree.forest, ptree.tree),
                  pc |-> IF after = <<>> THEN "closed" ELSE "replay",
                  steps |-> ptree.steps + 1,
                  last |-> Executed("outer", tactic, after)]
    /\ UNCHANGED <<t1, t2, op, arg, res, adj, keys, topo, gen, clone>>

\* After the break the next step of the file ends the proof (in_proof is
\* false at line 88): the replay of this theorem is over.
ReplayLeave ==
    /\ ptree.pc = "broken"
    /\ ptree.steps < MaxSteps
    /\ \E tactic \in Tactics :
        ptree' = [ptree EXCEPT !.pc = "left", !.steps = @ + 1,
                               !.last = Executed("outer", tactic, <<>>)]
    /\ UNCHANGED <<t1, t2, op, arg, res, adj, keys, topo, gen, clone>>

NextReplay ==
    ReplayTactic \/ ReplayBullet \/ ReplayNoGoals \/ ReplayResume \/ ReplayLeave

SpecReplay == InitReplay /\ [][NextReplay]_vars

-----------------------------------------------------------------------------
(* Specification of proof extraction: get_proof on a generated tree, which *)
(* may hold self-loops, longer cycles and children that have no node       *)

MaxChildren == 2  \* children of one node

NodeOrder == <<"A", "B", "C">>

NodeTexts == Range(NodeOrder)

ChildLists == UNION {[1..n -> NodeTexts] : n \in 0..MaxChildren}

\* The tree over the keys ks with the children ch, each node with its own
\* tactic text.
TreeOver(ks, ch) ==
    [keys |-> SelectSeq(NodeOrder, LAMBDA n : n \in ks),
     node |-> [n \in ks |-> [symbols |-> <<>>, context |-> <<>>,
                             children |-> ch[n], tactic |-> <<"t", n>>]]]

InitProof ==
    /\ \E ks \in SUBSET NodeTexts :
       \E ch \in [ks -> ChildLists] :
        ptree = [goals |-> <<>>, goal_stack |-> <<>>, tree |-> TreeOver(ks, ch),
                 pc |-> "built", steps |-> 0, last |-> Idle]
    /\ clone = Idle
    /\ adj = <<>>
    /\ keys = <<>>
    /\ topo = Idle
    /\ gen = Idle
    /\ t1 = NoneT
    /\ t2 = NoneT
    /\ op = "init"
    /\ arg = Idle
    /\ res = Idle

\* res = proof_tree.get_proof(node)
GetProof ==
    /\ ptree.pc = "built"
    /\ \E node \in NodeTexts :
        /\ arg' = [node |-> node]
        /\ res' = ProofTree_get_proof(ptree.tree, node)
    /\ op' = "get_proof"
    /\ UNCHANGED <<t1, t2, adj, keys, topo, gen, ptree, clone>>

NextProof == GetProof

SpecProof == InitProof /\ [][NextProof]_vars

-----------------------------------------------------------------------------
(* Specification of the clone search over a generated corpus: the loop of  *)
(* main over the nodes of every proof tree, the redundancy filter, and     *)
(* find_alpha_equiv_goals                                                  *)

MaxTrees == 2     \* proof trees in the corpus
MaxMinProofSz == 2  \* largest configured minimum proof size

Node(context, children) ==
    [symbols |-> <<>>, context |-> context, children |-> children, tactic |-> <<"a">>]

TreeOf(ks, nodes) == [keys |-> ks, node |-> [n \in Range(ks) |-> nodes[n]]]

Gb == <<"G", "b">>
Gc == <<"G", "c">>
Gab == <<"G", "a", "b">>
Fab == Forall("a", <<"nat">>, Forall("b", <<"nat">>, Gab))
Fbc == Forall("b", <<"nat">>, Forall("c", <<"nat">>, <<"G", "b", "c">>))

\* Goals G b and G c under b : nat and c : nat (generalized to alpha-equivalent
\* products), G b and G a b with no local context (bodies of products),
\* two closed two-binder products that differ in their bound names, and
\* trees of two nodes.
CorpusTrees ==
    {TreeOf(<<Gb>>,  (Gb :> Node(<<Hyp(<<"b">>, <<"nat">>)>>, <<>>))),
     TreeOf(<<Gc>>,  (Gc :> Node(<<Hyp(<<"c">>, <<"nat">>)>>, <<>>))),
     TreeOf(<<Gb>>,  (Gb :> Node(<<>>, <<>>))),
     TreeOf(<<Gab>>, (Gab :> Node(<<>>, <<>>))),
     TreeOf(<<Fab>>, (Fab :> Node(<<>>, <<>>))),
     TreeOf(<<Fbc>>, (Fbc :> Node(<<>>, <<>>))),
     TreeOf(<<Gb, Gc>>,
            (Gb :> Node(<<Hyp(<<"b">>, <<"nat">>)>>, <<Gc>>)) @@
            (Gc :> Node(<<Hyp(<<"c">>, <<"nat">>)>>, <<>>))),
     TreeOf(<<Fab, Gab>>,
            (Fab :> Node(<<>>, <<Gab, Fab>>)) @@ (Gab :> Node(<<>>, <<>>)))}

Theorems == {"T1", "T2"}

Corpora ==
    UNION {[1..n -> [thm : Theorems, tree : CorpusTrees]] : n \in 1..MaxTrees}

InitClone ==
    /\ \E corpus \in Corpora, min_proof_sz \in 1..MaxMinProofSz :
        clone = [corpus |-> corpus, min_proof_sz |-> min_proof_sz, pc |-> "nodes",
                 i |-> 1, n |-> 1, goals_list |-> <<>>, goal_ast_map |-> <<>>,
                 candidates |-> <<>>, fi |-> 1, fj |-> 2, report |-> <<>>,
                 err |-> FALSE]
    /\ ptree = Idle
    /\ adj = <<>>
    /\ keys = <<>>
    /\ topo = Idle
    /\ gen = Idle
    /\ t1 = NoneT
    /\ t2 = NoneT
    /\ op = "init"
    /\ arg = Idle
    /\ res = Idle

\* One pass of the loop over proof_tree.get_nodes() (main.py 104-113) for
\* node n of tree i; ss and inner are the iteration orders of the sets that
\* generalize walks.  After the last node of the last tree the loops end.
ProcessNode ==
    /\ clone.pc = "nodes"
    /\ LET proof_tree == clone.corpus[clone.i].tree
           node == proof_tree.keys[clone.n]
           hyps == proof_tree.node[node].context
           proof == ProofTree_get_proof(proof_tree, node)
           last_node == clone.n = Len(proof_tree.keys)
           moved == [clone EXCEPT
                        !.i = IF last_node THEN @ + 1 ELSE @,
                        !.n = IF last_node THEN 1 ELSE @ + 1,
                        !.pc = IF last_node /\ clone.i = Len(clone.corpus)
                               THEN "filter" ELSE "nodes"]
       IN  IF Len(proof) >= clone.min_proof_sz
           THEN \E local_context \in {LocalContext(hyps, Len(hyps))} :
                \E fvs \in {locally_defined_fvs(node, hyps)} :
                \E ss \in Perms(fvs) :
                \E inner \in [fvs -> UNION {Perms(local_context[v][2]) : v \in fvs}] :
                    /\ \A v \in fvs : inner[v] \in Perms(local_context[v][2])
                    /\ LET out == generalize(node, hyps, ss, inner)
                       IN  clone' =
                             IF out.err THEN [clone EXCEPT !.pc = "done", !.err = TRUE]
                             ELSE [moved EXCEPT
                                     !.goal_ast_map = (out.text :> GoalParser_parse(out.text)) @@ @,
                                     !.goals_list = Append(@,
                                        [goal |-> node,
                                         thm |-> clone.corpus[clone.i].thm,
                                         proof |-> proof,
                                         gen |-> out.text])]
           ELSE clone' = moved
    /\ UNCHANGED <<t1, t2, op, arg, res, adj, keys, topo, gen, ptree>>

\* main.py 114-121; candidates keeps the list as it was before the filter.
FilterRedundant ==
    /\ clone.pc = "filter"
    /\ clone' = [clone EXCEPT
                    !.candidates = clone.goals_list,
                    !.goals_list = remove_redundant(clone.goals_list, clone.goal_ast_map),
                    !.pc = "find"]
    /\ UNCHANGED <<t1, t2, op, arg, res, adj, keys, topo, gen, ptree>>

\* find_alpha_equiv_goals(..., goal_ast_map, goals_list), one pass of the inner
\* loop per step: for i in range(len), for j in range(i + 1, len).  With fewer
\* than two goals no pair is examined.
FindAlphaEquivGoals ==
    /\ clone.pc = "find"
    /\ LET len == Len(clone.goals_list)
           i == clone.fi
           j == clone.fj
       IN  IF j > len THEN clone' = [clone EXCEPT !.pc = "done"]
           ELSE \E out \in {compare_goals(clone.goals_list, clone.goal_ast_map,
                                          i, j, clone.report)} :
                    clone' = [clone EXCEPT
                                !.report = out.report,
                                !.err = out.err,
                                !.fi = IF j < len THEN i ELSE i + 1,
                                !.fj = IF j < len THEN j + 1 ELSE i + 2,
                                !.pc = IF out.err \/ (j = len /\ i + 1 = len)
                                       THEN "done" ELSE "find"]
    /\ UNCHANGED <<t1, t2, op, arg, res, adj, keys, topo, gen, ptree>>

NextClone == ProcessNode \/ FilterRedundant \/ FindAlphaEquivGoals

SpecClone == InitClone /\ [][NextClone]_vars

-----------------------------------------------------------------------------
(* Notions the properties are stated with                                  *)

Opt(n) == IF n = NoVar THEN {} ELSE {n}

\* The names a pattern binds, in order: names[1:] and the alias.
PatternBinds(p) ==
    IF p = NoneT THEN <<>>
    ELSE SubSeq(p.names, 2, Len(p.names)) \o (IF p.alias = NoVar THEN <<>> ELSE <<p.alias>>)

SubjectBinds(u) ==
    (IF u.term_alias = NoVar THEN <<>> ELSE <<u.term_alias>>) \o PatternBinds(u.pattern)

\* Every name written in a term, binders included.
RECURSIVE Occurs(_)
Occurs(t) ==
    CASE t.tag = "None" -> {}
      [] t.tag = "Var" -> {t.name}
      [] t.tag = "Sort" -> {}
      [] t.tag \in {"Fun", "Product"} ->
            {t.var} \cup Occurs(t.var_type) \cup Occurs(t.body)
      [] t.tag = "Let" ->
            {t.var} \cup Occurs(t.var_type) \cup Occurs(t.var_def) \cup Occurs(t.body)
      [] t.tag = "Cast" -> Occurs(t.term) \cup Occurs(t.term_type)
      [] t.tag = "App" -> Occurs(t.func) \cup Occurs(t.arg)
      [] t.tag = "Cond" ->
            Opt(t.guard_alias) \cup Occurs(t.guard) \cup Occurs(t.ret_ty)
            \cup Occurs(t.then_branch) \cup Occurs(t.else_branch)
      [] t.tag = "Fix" ->
            {t.name} \cup Opt(t.struct) \cup Range(Fix_param_names(t))
            \cup UNION {Occurs(t.params[i].ty) : i \in 1..Len(t.params)}
            \cup Occurs(t.ret_ty) \cup Occurs(t.body)
      [] t.tag = "Match" ->
            UNION {Occurs(t.subjects[i].term) \cup Range(SubjectBinds(t.subjects[i]))
                   \cup (IF t.subjects[i].pattern = NoneT THEN {}
                         ELSE Range(t.subjects[i].pattern.names)) :
                       i \in 1..Len(t.subjects)}
            \cup Occurs(t.ret_ty)
            \cup UNION {Occurs(t.cases[i].body)
                        \cup UNION {Range(t.cases[i].patterns[j].names)
                                    \cup Opt(t.cases[i].patterns[j].alias) :
                                       j \in 1..Len(t.cases[i].patterns)} :
                          i \in 1..Len(t.cases)}

\* The names some node of a term binds.
RECURSIVE BoundIn(_)
BoundIn(t) ==
    CASE t.tag \in {"None", "Var", "Sort"} -> {}
      [] t.tag \in {"Fun", "Product"} ->
            {t.var} \cup BoundIn(t.var_type) \cup BoundIn(t.body)
      [] t.tag = "Let" ->
            {t.var} \cup BoundIn(t.var_type) \cup BoundIn(t.var_def) \cup BoundIn(t.body)
      [] t.tag = "Cast" -> BoundIn(t.term) \cup BoundIn(t.term_type)
      [] t.tag = "App" -> BoundIn(t.func) \cup BoundIn(t.arg)
      [] t.tag = "Cond" ->
            Opt(t.guard_alias) \cup BoundIn(t.guard) \cup BoundIn(t.ret_ty)
            \cup BoundIn(t.then_branch) \cup BoundIn(t.else_branch)
      [] t.tag = "Fix" ->
            {t.name} \cup (Range(Fix_param_names(t)) \ {"_"})
            \cup UNION {BoundIn(t.params[i].ty) : i \in 1..Len(t.params)}
            \cup BoundIn(t.ret_ty) \cup BoundIn(t.body)
      [] t.tag = "Match" ->
            UNION {BoundIn(t.subjects[i].term)
                   \cup (Range(SubjectBinds(t.subjects[i])) \ {"_"}) :
                       i \in 1..Len(t.subjects)}
            \cup BoundIn(t.ret_ty)
            \cup UNION {BoundIn(t.cases[i].body)
                        \cup UNION {Range(PatternBinds(t.cases[i].patterns[j])) \ {"_"} :
                                       j \in 1..Len(t.cases[i].patterns)} :
                          i \in 1..Len(t.cases)}

\* Equality up to a consistent renaming of bound variables, under the binding
\* rules of the term model.  env lists the pairs of binder names in scope,
\* innermost last; two names correspond if the innermost binder of either is
\* the same pair, or if both are free and equal.
RECURSIVE Corresponds(_, _, _, _)
Corresponds(n, m, env, i) ==
    IF i = 0 THEN n = m
    ELSE IF env[i][1] = n \/ env[i][2] = m THEN env[i][1] = n /\ env[i][2] = m
    ELSE Corresponds(n, m, env, i - 1)

\* Two binder lists pair up position by position; a wildcard only with a wildcard.
BindersMatch(ns, ms) ==
    Len(ns) = Len(ms) /\ \A i \in 1..Len(ns) : (ns[i] = "_") = (ms[i] = "_")

BinderPairs(ns, ms) ==
    SelectSeq([i \in 1..Len(ns) |-> <<ns[i], ms[i]>>], LAMBDA pr : pr[1] # "_")

PatternsMatch(p, q) ==
    IF p = NoneT \/ q = NoneT THEN p = q
    ELSE /\ p.names # <<>> /\ q.names # <<>> /\ p.names[1] = q.names[1]
         /\ Len(p.names) = Len(q.names)
         /\ (p.alias = NoVar) = (q.alias = NoVar)
         /\ BindersMatch(PatternBinds(p), PatternBinds(q))

RECURSIVE RefAlpha(_, _, _)

RefAlphaCase(c, d, env) ==
    /\ Len(c.patterns) = Len(d.patterns)
    /\ \A j \in 1..Len(c.patterns) : PatternsMatch(c.patterns[j], d.patterns[j])
    /\ RefAlpha(c.body, d.body,
                env \o BinderPairs(Flatten([j \in 1..Len(c.patterns) |-> PatternBinds(c.patterns[j])]),
                                   Flatten([j \in 1..Len(d.patterns) |-> PatternBinds(d.patterns[j])])))

RefAlphaMatch(a, b, env) ==
    /\ Len(a.subjects) = Len(b.subjects)
    /\ \A i \in 1..Len(a.subjects) :
        /\ RefAlpha(a.subjects[i].term, b.subjects[i].term, env)
        /\ (a.subjects[i].term_alias = NoVar) = (b.subjects[i].term_alias = NoVar)
        /\ PatternsMatch(a.subjects[i].pattern, b.subjects[i].pattern)
    /\ RefAlpha(a.ret_ty, b.ret_ty,
                env \o BinderPairs(Flatten([i \in 1..Len(a.subjects) |-> SubjectBinds(a.subjects[i])]),
                                   Flatten([i \in 1..Len(b.subjects) |-> SubjectBinds(b.subjects[i])])))
    /\ Len(a.cases) = Len(b.cases)
    /\ \A i \in 1..Len(a.cases) : RefAlphaCase(a.cases[i], b.cases[i], env)

RefAlphaFix(a, b, env) ==
    /\ Len(a.params) = Len(b.params)
    /\ \A i \in 1..Len(a.params) : BindersMatch(a.params[i].names, b.params[i].names)
    /\ LET ps == BinderPairs(Fix_param_names(a), Fix_param_names(b))
           inner == env \o <<<<a.name, b.name>>>> \o ps
       IN  /\ \A i \in 1..Len(a.params) :
                RefAlpha(a.params[i].ty, b.params[i].ty, env \o ps)
           /\ RefAlpha(a.ret_ty, b.ret_ty, env)
           /\ RefAlpha(a.body, b.body, inner)
           /\ (a.struct = NoVar) = (b.struct = NoVar)
           /\ a.struct # NoVar => Corresponds(a.struct, b.struct, inner, Len(inner))

RefAlpha(a, b, env) ==
    IF a.tag # b.tag THEN FALSE
    ELSE CASE a.tag = "None" -> TRUE
           [] a.tag = "Var" -> Corresponds(a.name, b.name, env, Len(env))
           [] a.tag = "Sort" -> a = b
           [] a.tag \in {"Fun", "Product"} ->
                /\ RefAlpha(a.var_type, b.var_type, env)
                /\ RefAlpha(a.body, b.body, Append(env, <<a.var, b.var>>))
           [] a.tag = "Let" ->
                /\ RefAlpha(a.var_type, b.var_type, env)
                /\ RefAlpha(a.var_def, b.var_def, env)
                /\ RefAlpha(a.body, b.body, Append(env, <<a.var, b.var>>))
           [] a.tag = "Cast" ->
                RefAlpha(a.term, b.term, env) /\ RefAlpha(a.term_type, b.term_type, env)
           [] a.tag = "App" ->
                RefAlpha(a.func, b.func, env) /\ RefAlpha(a.arg, b.arg, env)
           [] a.tag = "Cond" ->
                /\ (a.guard_alias = NoVar) = (b.guard_alias = NoVar)
                /\ RefAlpha(a.guard, b.guard, env)
                /\ RefAlpha(a.ret_ty, b.ret_ty,
                            IF a.guard_alias = NoVar THEN env
                            ELSE Append(env, <<a.guard_alias, b.guard_alias>>))
                /\ RefAlpha(a.then_branch, b.then_branch, env)
                /\ RefAlpha(a.else_branch, b.else_branch, env)
           [] a.tag = "Fix" -> RefAlphaFix(a, b, env)
           [] a.tag = "Match" -> RefAlphaMatch(a, b, env)

-----------------------------------------------------------------------------
(* Properties of the term operations, checked under SpecTerm               *)

\* C1: alpha_equiv is reflexive: comparing a term with itself returns true,
\* for every variant.
C1_Reflexive == (op = "alpha_equiv" /\ t2 = t1) => res = "true"

\* C2: alpha_equiv is symmetric: alpha_equiv(t1, t2) and alpha_equiv(t2, t1)
\* give the same outcome, for all terms t1 and t2.
C2_Symmetric == (op = "alpha_equiv" /\ t2 # NoneT) => res = alpha_equiv(t2, t1)

\* C3: renaming invariance: when x is bound somewhere in t and v does not
\* occur in t, alpha_equiv(t, deepcopy(t).subst(x, v)) returns true.  It is
\* stated for the variables x that are bound and have no free occurrence in
\* t, the case in which the substitution has nothing free to rename.
C3_RenamingInvariance ==
    (/\ op = "alpha_equiv_renamed"
     /\ arg.var \in BoundIn(t1)
     /\ arg.var \notin free_vars(t1)
     /\ arg.replacement \notin Occurs(t1))
    => res = "true"

\* C4: alpha_equiv is sound: whenever it returns true the two terms are equal
\* up to a consistent renaming of their bound variables.
C4_Sound == (op = "alpha_equiv" /\ res = "true") => RefAlpha(t1, t2, <<>>)

C6_SubstNeverRaises ==
    op = "subst" =>
        /\ res # "raise"
        /\ arg.var \notin Occurs(arg.before) => t1 = arg.before

-----------------------------------------------------------------------------
(* Properties of the dependency graph, checked under SpecDag               *)

Successors(g, n) == Range(g.adj[n])

\* The nodes reachable from the set S by zero or more edges.
RECURSIVE Closure(_, _)
Closure(g, S) ==
    LET T == S \cup UNION {Successors(g, m) : m \in S}
    IN  IF T = S THEN S ELSE Closure(g, T)

\* Some node reaches itself by one or more edges.
HasCycle(g) == \E n \in DOMAIN g.adj : n \in Closure(g, Successors(g, n))

Position(order, n) == CHOOSE i \in 1..Len(order) : order[i] = n

\* C7: on an acyclic graph the returned order places d before s for every
\* edge s -> d (the dependency first).
C7_DependencyFirst ==
    (topo # Idle /\ ~topo.err) =>
        \A s \in DOMAIN topo.graph.adj : \A d \in Successors(topo.graph, s) :
            Position(topo.res, d) < Position(topo.res, s)

\* C8: get_topological_ordering fails exactly when the graph has a cycle (a
\* self-edge, a two-node cycle or a longer one, wherever the traversal
\* starts); on an acyclic graph it returns an order of all the nodes.
C8_FailsIffCyclic ==
    topo # Idle =>
        /\ topo.err <=> HasCycle(topo.graph)
        /\ ~topo.err => Range(topo.res) = DOMAIN topo.graph.adj

\* C8 witness: the call failed on a graph whose only cycle runs through three
\* nodes, and the traversal started at the node added first.
C8_Witness ==
    /\ topo # Idle
    /\ topo.err
    /\ Len(topo.graph.keys) = 3
    /\ \A n \in DOMAIN topo.graph.adj :
        /\ n \notin Successors(topo.graph, n)
        /\ \A m \in Successors(topo.graph, n) : n \notin Successors(topo.graph, m)

-----------------------------------------------------------------------------
(* Properties of the generalizer, checked under SpecGen                    *)

\* The first closing parenthesis of a text (0 if there is none).
RECURSIVE ClosePos(_, _)
ClosePos(text, i) ==
    IF i > Len(text) THEN 0 ELSE IF text[i] = ")" THEN i ELSE ClosePos(text, i + 1)

IsForall(text) == text # <<>> /\ text[1] = "forall"

\* A text forall (name : type), (inner), with a type free of parentheses.
ForallShape(text) ==
    LET c == ClosePos(text, 1)
    IN  /\ Len(text) >= 9
        /\ text[2] = "(" /\ text[4] = ":"
        /\ c >= 6 /\ c + 3 <= Len(text)
        /\ text[c + 1] = "," /\ text[c + 2] = "("
        /\ text[Len(text)] = ")"

ForallInner(text) == SubSeq(text, ClosePos(text, 1) + 3, Len(text) - 1)

RECURSIVE WellNested(_)
WellNested(text) ==
    IF IsForall(text) THEN ForallShape(text) /\ WellNested(ForallInner(text)) ELSE TRUE

\* The outer binders of a text, outermost first, and the text they enclose.
RECURSIVE OuterBinders(_)
OuterBinders(text) ==
    IF IsForall(text)
    THEN <<[name |-> text[3], ty |-> SubSeq(text, 5, ClosePos(text, 1) - 1)]>>
         \o OuterBinders(ForallInner(text))
    ELSE <<>>

RECURSIVE Core(_)
Core(text) == IF IsForall(text) THEN Core(ForallInner(text)) ELSE text

\* Hypothesis h declares the name v.
Declares(h, v) == \E i \in 1..(IndexOfColon(h, 1) - 1) : h[i] = v

\* The type text of the last hypothesis that declares v.
DeclaredType(hyps, v) ==
    LET i == CHOOSE k \in 1..Len(hyps) :
                /\ Declares(hyps[k], v)
                /\ \A m \in (k + 1)..Len(hyps) : ~Declares(hyps[m], v)
    IN  SubSeq(hyps[i], IndexOfColon(hyps[i], 1) + 1, Len(hyps[i]))

\* The names of the goal that the local context declares.
FreeLocals(goal, hyps) ==
    {v \in Range(goal) : \E k \in 1..Len(hyps) : Declares(hyps[k], v)}

\* C9: the returned text is forall (name : type), (...) nested once per
\* generalized variable around the unchanged goal text; every locally defined
\* variable free in the goal is the name of exactly one binder, each binder
\* carries the type text declared for its name, and a goal with no locally
\* defined free variable is returned unchanged.
C9_NestedForalls ==
    (gen.called /\ ~gen.err) =>
        LET bs == OuterBinders(gen.text)
        IN  /\ WellNested(gen.text)
            /\ Core(gen.text) = gen.goal
            /\ \A i, j \in 1..Len(bs) : i # j => bs[i].name # bs[j].name
            /\ \A v \in FreeLocals(gen.goal, gen.hyps) :
                    \E i \in 1..Len(bs) : bs[i].name = v
            /\ \A i \in 1..Len(bs) :
                    /\ \E k \in 1..Len(gen.hyps) : Declares(gen.hyps[k], bs[i].name)
                    /\ bs[i].ty = DeclaredType(gen.hyps, bs[i].name)
            /\ FreeLocals(gen.goal, gen.hyps) = {} => gen.text = gen.goal

\* C9 witness: generalize returned a text with two binders for a goal with two
\* locally defined free variables.
C9_Witness ==
    /\ gen.called
    /\ ~gen.err
    /\ Cardinality(FreeLocals(gen.goal, gen.hyps)) = 2
    /\ Len(OuterBinders(gen.text)) = 2

\* C10: in the returned text, when the declared type of a generalized variable
\* s mentions a generalized variable d, the binder of d is further out than
\* the binder of s.
C10_DependencyInScope ==
    (gen.called /\ ~gen.err) =>
        LET bs == OuterBinders(gen.text)
        IN  \A s, d \in 1..Len(bs) :
                bs[d].name \in Range(bs[s].ty) => d < s

\* The substitution of r for the free occurrences of v, by the binding rules:
\* an abstraction binds its variable in its body, a Cond its guard alias in
\* its return type, a Fix its name and parameter names in its return type and
\* body (and the parameter names in the parameter types), a Match the names
\* of its subjects in its return type and the names of a clause's patterns in
\* the clause's body.
RECURSIVE RefSubst(_, _, _)
RefSubst(t, v, r) ==
    CASE t.tag \in {"None", "Sort"} -> t
      [] t.tag = "Var" -> IF t.name = v THEN Var(r) ELSE t
      [] t.tag \in {"Fun", "Product"} ->
            [t EXCEPT !.var_type = RefSubst(@, v, r),
                      !.body = IF t.var = v THEN @ ELSE RefSubst(@, v, r)]
      [] t.tag = "Let" ->
            [t EXCEPT !.var_type = RefSubst(@, v, r),
                      !.var_def = RefSubst(@, v, r),
                      !.body = IF t.var = v THEN @ ELSE RefSubst(@, v, r)]
      [] t.tag = "Cast" ->
            [t EXCEPT !.term = RefSubst(@, v, r), !.term_type = RefSubst(@, v, r)]
      [] t.tag = "App" ->
            [t EXCEPT !.func = RefSubst(@, v, r), !.arg = RefSubst(@, v, r)]
      [] t.tag = "Cond" ->
            [t EXCEPT !.guard = RefSubst(@, v, r),
                      !.then_branch = RefSubst(@, v, r),
                      !.else_branch = RefSubst(@, v, r),
                      !.ret_ty = IF t.guard_alias = v THEN @ ELSE RefSubst(@, v, r)]
      [] t.tag = "Fix" ->
            LET param == v \in Range(Fix_param_names(t))
                bound == param \/ t.name = v
            IN  [t EXCEPT !.params = [i \in 1..Len(t.params) |->
                                        [t.params[i] EXCEPT
                                            !.ty = IF param THEN @ ELSE RefSubst(@, v, r)]],
                          !.ret_ty = IF bound THEN @ ELSE RefSubst(@, v, r),
                          !.body = IF bound THEN @ ELSE RefSubst(@, v, r)]
      [] t.tag = "Match" ->
            [t EXCEPT !.subjects = [i \in 1..Len(t.subjects) |->
                                        [t.subjects[i] EXCEPT !.term = RefSubst(@, v, r)]],
                      !.ret_ty = IF v \in Range(Flatten([i \in 1..Len(t.subjects) |->
                                                            SubjectBinds(t.subjects[i])]))
                                 THEN @ ELSE RefSubst(@, v, r),
                      !.cases = [i \in 1..Len(t.cases) |->
                                    [t.cases[i] EXCEPT
                                        !.body = IF v \in Range(Flatten(
                                                        [j \in 1..Len(t.cases[i].patterns) |->
                                                            PatternBinds(t.cases[i].patterns[j])]))
                                                 THEN @ ELSE RefSubst(@, v, r)]]]

\* C16: subst(v, r) replaces every free occurrence of v by r in every
\* substructure of every variant (guard, branches and motive of a Cond,
\* subject terms, motive and case bodies of a Match, parameter types, return
\* type and body of a Fix, ...) and leaves unchanged every occurrence of v
\* under a binder of the same name: whenever the call completes, the term is
\* the substitution instance of the term it was called on.
C16_SubstReplacesFreeOccurrences ==
    (op = "subst" /\ res # "raise") =>
        t1 = RefSubst(arg.before, arg.var, arg.replacement)

\* C17: subst(v, r) returns the term it was called on, for every variant and
\* also when v is shadowed by the term's own binder: a call that completes
\* never yields None.
C17_SubstReturnsTerm == (op = "subst" /\ res # "raise") => res = "self"

\* C18: free_vars of a Fix treats the fix name and every parameter name as
\* bound in ret_ty and in body: such a name is reported free only if it is
\* free in a parameter type.
C18_FixNamesBoundInRetTyAndBody ==
    (op = "free_vars" /\ t1.tag = "Fix") =>
        \A n \in Range(Fix_bvs(t1)) :
            n \in res => \E i \in 1..Len(t1.params) : n \in free_vars(t1.params[i].ty)

\* C19: free_vars of a Cond contains every variable that is free in the
\* guard, in either branch, or (other than guard_alias) in the return type.
C19_CondFreeVarsComplete ==
    (op = "free_vars" /\ t1.tag = "Cond") =>
        (free_vars(t1.guard) \cup free_vars(t1.then_branch)
            \cup free_vars(t1.else_branch)
            \cup (free_vars(t1.ret_ty) \ {t1.guard_alias})) \subseteq res

\* C20: alpha_equiv on two Match terms returns true only if the matches have
\* the same number of subjects and alpha_equiv relates each pair of
\* corresponding subject terms.
C20_MatchSubjectsCompared ==
    (op = "alpha_equiv" /\ t1.tag = "Match" /\ t2.tag = "Match" /\ res = "true") =>
        /\ Len(t1.subjects) = Len(t2.subjects)
        /\ \A i \in 1..Len(t1.subjects) :
              alpha_equiv(t1.subjects[i].term, t2.subjects[i].term) = "true"

\* C21: when two abstractions of the same variant have different top-level
\* bound names, only that name is renamed before the bodies are compared
\* literally, so two terms whose nested binders carry different names, each
\* used in its nested body, are reported not alpha-equivalent.
C21_NestedBinderNamesMustAgree ==
    (/\ op = "alpha_equiv"
     /\ IsAbstraction(t1) /\ t2.tag = t1.tag /\ t1.var # t2.var
     /\ IsAbstraction(t1.body) /\ IsAbstraction(t2.body)
     /\ t1.body.var # t2.body.var
     /\ t1.body.var \in free_vars(t1.body.body)
     /\ t2.body.var \in free_vars(t2.body.body))
    => res # "true"

\* C22: literal structural equality performs no renaming and no reordering:
\* t1 == t2 holds only if the two are the same syntax tree, including the
\* names bound by every Fun, Product and Let and the order and multiplicity
\* of the case clauses of every Match.
C22_EqIsSyntacticIdentity == (op = "eq" /\ res = "true") => t1 = t2

\* C23: generalize quantifies only variables that are free in the original
\* goal and defined in the local context: every emitted binder names such a
\* variable.
C23_OnlyGoalVariablesQuantified ==
    (gen.called /\ ~gen.err) =>
        LET bs == OuterBinders(gen.text)
        IN  \A i \in 1..Len(bs) : bs[i].name \in FreeLocals(gen.goal, gen.hyps)

\* The names free in a text under the binders of its outer foralls: a name of
\* the enclosed text or of a binder type that no enclosing binder binds.
RECURSIVE FreeNames(_)
FreeNames(text) ==
    IF IsForall(text)
    THEN Range(SubSeq(text, 5, ClosePos(text, 1) - 1))
            \cup (FreeNames(ForallInner(text)) \ {text[3]})
    ELSE Range(text)

\* C24: the text returned by generalize is self-contained with respect to
\* the local context: no variable the local context declares occurs free in
\* it, neither in the goal part nor in the type of an emitted binder.
C24_SelfContained ==
    (gen.called /\ ~gen.err) =>
        \A v \in FreeNames(gen.text) :
            ~\E k \in 1..Len(gen.hyps) : Declares(gen.hyps[k], v)

\* C28: recomputation is deterministic: generalizing the same goal text with
\* the same local context always yields the identical text, whatever order
\* the sets of free variables are iterated in.
C28_GeneralizeDeterministic ==
    gen.called =>
        LET local_context == LocalContext(gen.hyps, Len(gen.hyps))
            fvs == locally_defined_fvs(gen.goal, gen.hyps)
        IN  \A ss \in Perms(fvs) :
            \A inner \in [fvs -> UNION {Perms(local_context[s][2]) : s \in fvs}] :
                (\A s \in fvs : inner[s] \in Perms(local_context[s][2])) =>
                    LET out == generalize(gen.goal, gen.hyps, ss, inner)
                    IN  out.err = gen.err /\ out.text = gen.text

-----------------------------------------------------------------------------
(* Properties of the proof tree, checked under SpecReplay and SpecProof    *)

Texts(goals) == [k \in 1..Len(goals) |-> goals[k].text]

\* C11: after every executed tactic that is no bullet, each goal open before
\* the tactic and not open after it has a node under its text that stores
\* the goal's local context and symbols, the tactic's text, and as children
\* the texts of the goals open after the tactic and not before it.
C11_DisappearedGoalsRecorded ==
    (ptree.last # Idle /\ ptree.last.kind = "tactic") =>
        \A g \in Range(ptree.last.before) \ Range(ptree.last.after) :
            /\ g.text \in DOMAIN ptree.tree.node
            /\ ptree.tree.node[g.text] =
                 [symbols |-> g.symbols, context |-> g.context,
                  tactic |-> ptree.last.tactic,
                  children |-> Texts(NotIn(ptree.last.after, ptree.last.before))]

\* The step just executed is the first step of its tree that is no bullet and
\* yields goal data: no such step since the tree was started.
FirstSnapshotStep ==
    /\ ptree.last # Idle
    /\ ptree.last.kind = "tactic"
    /\ \A i \in 1..Len(ptree.last.kinds) :
          ptree.last.kinds[i] = "tactic" =>
              \E j \in (i + 1)..Len(ptree.last.kinds) : ptree.last.kinds[j] = "outer"

\* C30: at every point of the replay the snapshot stack holds at most one
\* snapshot: the first step that is no marker finds the stack empty, records
\* no node and leaves the state observed after it as the only snapshot; every
\* later step that is no marker finds exactly one snapshot and replaces it by
\* the state observed after the step.
C30_AtMostOneSnapshot ==
    /\ Len(ptree.goal_stack) <= 1
    /\ (ptree.last # Idle /\ ptree.last.kind = "tactic") =>
          /\ ptree.goal_stack = <<ptree.last.after>>
          /\ IF FirstSnapshotStep
             THEN ptree.last.goal_stack = <<>> /\ ptree.tree = ptree.last.tree
             ELSE Len(ptree.last.goal_stack) = 1

\* A later step that is no marker replaced a snapshot by a different one.
C30_Witness ==
    /\ ptree.last # Idle
    /\ ptree.last.kind = "tactic"
    /\ ~FirstSnapshotStep
    /\ ptree.last.goal_stack # <<>>
    /\ ptree.last.goal_stack # ptree.goal_stack

\* The goals of the snapshot on top of the stack the last step started with
\* that are not open after the step, in the snapshot's order.
Disappeared ==
    NotIn(ptree.last.goal_stack[Len(ptree.last.goal_stack)], ptree.last.after)

\* The goals open after the last step that the snapshot does not hold.
Appeared ==
    NotIn(ptree.last.after, ptree.last.goal_stack[Len(ptree.last.goal_stack)])

\* The last step is no marker, yields goals and found a snapshot to diff.
DiffStep ==
    /\ ptree.last # Idle
    /\ ptree.last.kind = "tactic"
    /\ ptree.last.goal_stack # <<>>

\* C29: a tree has one node per goal text.  When a goal disappears at a step
\* and its text already has a node from an earlier step, the node afterwards
\* carries the later step's tactic and children and the context and symbols
\* of the goal that disappeared at the later step (of the last one in the
\* snapshot, if several goals of that text disappear together); nothing of
\* the earlier record remains, and the other nodes are as they were.
C29_LaterRecordReplacesEarlier ==
    /\ \A i, j \in 1..Len(ptree.tree.keys) :
          ptree.tree.keys[i] = ptree.tree.keys[j] => i = j
    /\ DOMAIN ptree.tree.node = Range(ptree.tree.keys)
    /\ DiffStep =>
          /\ \A i \in 1..Len(Disappeared) :
                (\A j \in (i + 1)..Len(Disappeared) :
                     Disappeared[j].text # Disappeared[i].text)
                => /\ Disappeared[i].text \in DOMAIN ptree.tree.node
                   /\ ptree.tree.node[Disappeared[i].text] =
                        [symbols |-> Disappeared[i].symbols,
                         context |-> Disappeared[i].context,
                         tactic |-> ptree.last.tactic,
                         children |-> Texts(Appeared)]
          /\ \A n \in DOMAIN ptree.last.tree.node :
                n \notin {g.text : g \in Range(Disappeared)} =>
                    /\ n \in DOMAIN ptree.tree.node
                    /\ ptree.tree.node[n] = ptree.last.tree.node[n]

\* A goal disappeared whose text had a node with another local context.
C29_Witness ==
    /\ DiffStep
    /\ \E g \in Range(Disappeared) :
          /\ g.text \in DOMAIN ptree.last.tree.node
          /\ ptree.last.tree.node[g.text].context # g.context
          /\ ptree.last.tree.node[g.text].tactic # ptree.last.tactic
          /\ ptree.tree.node[g.text].context = g.context

\* A focus-switch marker: a non-empty run of one of the characters - + *.
FocusMarker(s) ==
    /\ Len(s) >= 1
    /\ s[1] \in {"-", "+", "*"}
    /\ \A i \in 1..Len(s) : s[i] = s[1]

\* The last step is no marker and the step before it was a marker that
\* yielded goals.
AfterMarker ==
    /\ ptree.last # Idle
    /\ ptree.last.kind = "tactic"
    /\ ptree.last.prev # Idle
    /\ ptree.last.prev.kind = "bullet"

\* The snapshot on top of the stack before the marker.
SnapshotBeforeMarker ==
    ptree.last.prev.goal_stack[Len(ptree.last.prev.goal_stack)]

\* C25: a step of the replay loop whose text is a focus-switch marker records
\* no node and leaves tree and snapshot stack as they were; the step that
\* follows a marker and is no marker is diffed against the snapshot that was
\* on the stack before the marker: each goal of that snapshot not open after
\* the step has a node with the step's tactic and, as children, the goals
\* open after the step that the snapshot does not hold.
C25_MarkerLeavesTreeAndStack ==
    /\ (ptree.last # Idle /\ ptree.last.kind # "outer"
            /\ FocusMarker(ptree.last.tactic))
        => /\ ptree.tree = ptree.last.tree
           /\ ptree.goal_stack = ptree.last.goal_stack
    /\ AfterMarker =>
          IF ptree.last.prev.goal_stack = <<>>
          THEN ptree.tree = ptree.last.prev.tree
          ELSE \A g \in Range(NotIn(SnapshotBeforeMarker, ptree.last.after)) :
                  /\ g.text \in DOMAIN ptree.tree.node
                  /\ ptree.tree.node[g.text].tactic = ptree.last.tactic
                  /\ ptree.tree.node[g.text].children =
                        Texts(NotIn(ptree.last.after, SnapshotBeforeMarker))

\* After a snapshot a marker changed the reported goals, and the next step,
\* no marker, made a goal of the snapshot disappear that the goals reported
\* after the marker did not hold.
C25_Witness ==
    /\ AfterMarker
    /\ ptree.last.prev.goal_stack # <<>>
    /\ ptree.last.prev.after # SnapshotBeforeMarker
    /\ \E g \in Range(NotIn(SnapshotBeforeMarker, ptree.last.after)) :
          g \notin Range(ptree.last.prev.after)

\* C27: alpha_equiv and is_prod_body never modify their operands: whatever
\* the variant of the terms and whether the call answers True, answers False
\* or raises, each of the two terms is afterwards structurally what it was
\* before the call.
C27_OperandsUnchanged ==
    op \in {"alpha_equiv", "is_prod_body"} =>
        /\ t1 = arg.this
        /\ t2 = arg.other

\* Two abstractions with different variables were found alpha-equivalent
\* through the renaming of a variable that occurs in the body.
C27_Witness ==
    /\ op = "alpha_equiv"
    /\ res = "true"
    /\ IsAbstraction(t1)
    /\ t1.var # t2.var
    /\ subst(t1.body, t1.var, SynthesizedVar(0)).t # t1.body

\* C26: a step of the replay that yields no goal data records no node and
\* keeps the nodes recorded so far, and it ends the replay of the theorem:
\* no tree of the theorem is ever left behind for a further one, so every
\* step executed after it finds the tree as that step left it.
C26_NoGoalStepEndsReplay ==
    /\ (ptree.last # Idle /\ ptree.last.kind = "none") =>
          ptree.tree = ptree.last.tree
    /\ (ptree.last # Idle /\ "none" \in Range(ptree.last.kinds)) =>
          ptree.tree = ptree.last.tree
    /\ ptree.forest = <<>>

\* The recorded nodes reachable from the nodes of S through recorded children.
RECURSIVE TreeClosure(_, _)
TreeClosure(tree, S) ==
    LET T == S \cup (UNION {Range(tree.node[n].children) : n \in S} \cap DOMAIN tree.node)
    IN  IF T = S THEN S ELSE TreeClosure(tree, T)

Reachable(tree, node) ==
    IF node \in DOMAIN tree.node THEN TreeClosure(tree, {node}) ELSE {}

\* Depth-first preorder with an explicit stack: the next node to visit is the
\* head of todo; a node without record or already seen is dropped, any other
\* is listed and its children go on top of the stack in child-list order.
RECURSIVE Preorder(_, _, _)
Preorder(tree, todo, seen) ==
    IF todo = <<>> THEN seen
    ELSE IF Head(todo) \notin DOMAIN tree.node \/ Head(todo) \in Range(seen)
         THEN Preorder(tree, Tail(todo), seen)
         ELSE Preorder(tree, tree.node[Head(todo)].children \o Tail(todo),
                       Append(seen, Head(todo)))

\* C12: get_proof(node) terminates on every tree, cyclic ones included, and
\* returns the tactics of the recorded nodes reachable from node in
\* depth-first preorder (own tactic first, then the children's subtrees in
\* child-list order), each node once; for a node without record it returns
\* the empty list.
C12_GetProofPreorder ==
    op = "get_proof" =>
        LET order == Preorder(ptree.tree, <<arg.node>>, <<>>)
        IN  /\ res = [i \in 1..Len(order) |-> ptree.tree.node[order[i]].tactic]
            /\ Range(order) = Reachable(ptree.tree, arg.node)
            /\ \A i, j \in 1..Len(order) : i # j => order[i] # order[j]
            /\ arg.node \in DOMAIN ptree.tree.node =>
                    res[1] = ptree.tree.node[arg.node].tactic
            /\ arg.node \notin DOMAIN ptree.tree.node => res = <<>>

\* C12 witness: get_proof ran on a node that reaches itself only through two
\* other nodes, and returned three tactics.
C12_Witness ==
    /\ op = "get_proof"
    /\ Len(res) = 3
    /\ arg.node \notin Range(ptree.tree.node[arg.node].children)
    /\ \E n \in DOMAIN ptree.tree.node :
        /\ arg.node \in Range(ptree.tree.node[n].children)
        /\ n \notin Range(ptree.tree.node[arg.node].children)

-----------------------------------------------------------------------------
(* Properties of the clone search, checked under SpecClone                 *)

\* The search has run to its end without an exception.
SearchDone == clone.pc = "done" /\ ~clone.err

\* The report names the two candidates g and h as a pair.
Reported(g, h) ==
    \E k \in 1..Len(clone.report) :
        {clone.goals_list[clone.report[k][1]], clone.goals_list[clone.report[k][2]]}
            = {g, h}

AstOf(g) == clone.goal_ast_map[g.gen]

\* C13: any two goals from different theorems whose generalized ASTs are
\* alpha-equivalent and whose proofs both have at least the configured minimum
\* length appear together as a pair in the clone report.
C13_AlphaEquivalentGoalsReported ==
    SearchDone =>
        \A i, j \in 1..Len(clone.candidates) :
            LET g == clone.candidates[i]
                h == clone.candidates[j]
            IN  (/\ i < j
                 /\ g.thm # h.thm
                 /\ Len(g.proof) >= clone.min_proof_sz
                 /\ Len(h.proof) >= clone.min_proof_sz
                 /\ RefAlpha(AstOf(g), AstOf(h), <<>>))
                => Reported(g, h)

\* C14: the clone report never contains a pair whose two goals come from the
\* same theorem; every reported pair has index i < j in the list of candidates
\* that is compared, and no pair is reported twice.
C14_NoSameTheoremPairNoRepeat ==
    \A k \in 1..Len(clone.report) :
        LET i == clone.report[k][1]
            j == clone.report[k][2]
        IN  /\ 1 <= i /\ i < j /\ j <= Len(clone.goals_list)
            /\ clone.goals_list[i].thm # clone.goals_list[j].thm
            /\ \A l \in 1..Len(clone.report) : l # k => clone.report[l] # clone.report[k]

\* Two pairs are reported, and two compared candidates of one theorem that
\* alpha_equiv relates are not.
C14_Witness ==
    /\ SearchDone
    /\ Len(clone.report) >= 2
    /\ \E i, j \in 1..Len(clone.goals_list) :
          /\ i < j
          /\ clone.goals_list[i].thm = clone.goals_list[j].thm
          /\ alpha_equiv(AstOf(clone.goals_list[i]), AstOf(clone.goals_list[j])) = "true"

\* The term left after removing k leading Product layers of a (a itself when
\* fewer are present), and the number of leading Product layers.
RECURSIVE StripN(_, _)
StripN(a, k) == IF k = 0 \/ a.tag # "Product" THEN a ELSE StripN(a.body, k - 1)

RECURSIVE ProductDepth(_)
ProductDepth(a) == IF a.tag = "Product" THEN 1 + ProductDepth(a.body) ELSE 0

StripsTo(a, b) == \E k \in 1..ProductDepth(a) : Term_eq(StripN(a, k), b)

\* Some candidate's AST is a Product that strips to the AST of b.
Redundant(b) ==
    \E i \in 1..Len(clone.candidates) :
        /\ AstOf(clone.candidates[i]).tag = "Product"
        /\ StripsTo(AstOf(clone.candidates[i]), AstOf(b))

Filtered == clone.pc = "find" \/ SearchDone

\* C15: the redundancy filter removes a candidate b before the pairwise
\* comparison if and only if some candidate's generalized AST is a Product and
\* stripping one or more leading Product layers from it yields a term equal
\* (==) to b's generalized AST; the others stay, in their order.  No AST
\* strips to itself, so a candidate is never removed on account of its own
\* AST alone.
C15_RedundancyFilter ==
    Filtered =>
        /\ clone.goals_list = SelectSeq(clone.candidates, LAMBDA b : ~Redundant(b))
        /\ \A i \in 1..Len(clone.candidates) :
              ~StripsTo(AstOf(clone.candidates[i]), AstOf(clone.candidates[i]))

\* The filter has removed one candidate that is reached after two layers only,
\* and has kept another one whose AST is a Product.
C15_Witness ==
    /\ clone.pc = "find"
    /\ \E i, j \in 1..Len(clone.candidates) :
          /\ ProductDepth(AstOf(clone.candidates[i])) = 2
          /\ Term_eq(StripN(AstOf(clone.candidates[i]), 2), AstOf(clone.candidates[j]))
          /\ ~Term_eq(StripN(AstOf(clone.candidates[i]), 1), AstOf(clone.candidates[j]))
          /\ \A k \in 1..Len(clone.goals_list) : clone.goals_list[k] # clone.candidates[j]
          /\ \E k \in 1..Len(clone.goals_list) : clone.goals_list[k] = clone.candidates[i]

=============================================================================
